---- MODULE Spec2Model ----
(***************************************************************************)
(* Quote-wise-AI: the pricing rules engine (src/src/pricing_engine.py),    *)
(* the pricing and risk tools built on it (src/src/tools), the in-memory   *)
(* cache (src/src/utils/cache.py) and the chat page (src/src/main.py).     *)
(*                                                                         *)
(* Spec and SeasonSpec.  One PricingRulesEngine instance is modelled at a  *)
(* time: the arguments of the request (product, quantity), the instance's  *)
(* fields (base_price, adjustments, final_price), the wall clock read by   *)
(* the seasonal rule (month) and the value returned by the last            *)
(* calculate_price call.                                                   *)
(*                                                                         *)
(* ToolSpec.  One call of PricingCalculatorTool._run or of                 *)
(* RiskAssessmentTool._run on a payload, and the aggregation of the priced *)
(* items into a quote.                                                     *)
(*                                                                         *)
(* PipelineSpec.  A request priced by the engine and the result handed to  *)
(* RiskAssessmentTool._run.                                                *)
(*                                                                         *)
(* CacheSpec.  One MemoryCache and the clock it reads.                     *)
(*                                                                         *)
(* CachedSpec.  Functions wrapped with @cached, called over the global     *)
(* cache.                                                                  *)
(*                                                                         *)
(* ChatSpec.  The chat page of src/src/main.py: st.session_state and the   *)
(* handling of one prompt at a time (new request, modification, approval). *)
(*                                                                         *)
(* Numbers.  Python floats are modelled as exact rationals [n, d] in       *)
(* lowest terms (d > 0); round(x, 2) is modelled as rounding to the        *)
(* nearest hundredth, ties to even.  The representation error of a float   *)
(* (about 1e-16 relative) is not modelled; it decides which neighbour      *)
(* Python returns for a value exactly halfway between two hundredths, so   *)
(* the inputs are chosen to produce no such value, and the properties      *)
(* characterise a rounding by "no number of 2 places is nearer".           *)
(*                                                                         *)
(* Text.  A formatted string is a sequence of fragments (the literal parts *)
(* of the f-string and the formatted values); `needle in text` is          *)
(* modelled as "needle is one of the fragments".                           *)
(*                                                                         *)
(* Dictionaries.  A dict entry is [st, v]: st = "set" (key present, value  *)
(* v), "null" (key present, value None) or "absent" (no such key).         *)
(***************************************************************************)
EXTENDS Integers, Sequences, FiniteSets, TLC

VARIABLES
    product,      \* self.product: the product dict given to __init__
    quantity,     \* self.quantity
    base_price,   \* self.base_price
    adjustments,  \* self.adjustments
    final_price,  \* self.final_price
    engine,       \* "none" (not constructed), "ready", or "TypeError" (__init__ raised)
    calls,        \* calculate_price calls made on this instance
    month,        \* datetime.now().month
    result,       \* value returned by the last calculate_price call, <<>> if none
    log,          \* self.adjustments after each rule of the last call that ran the rules,
                  \* and as the value-based override found it
    last,         \* <<[product, quantity, month, result]>> of this instance's first call
    prev,         \* the same, of the previous instance built from the same arguments
    line_items_json,    \* argument of PricingCalculatorTool._run, as parsed
    tool_output,        \* what PricingCalculatorTool._run returned or raised
    quote,              \* the quote aggregated from the priced items
    item_pricing_json,  \* argument of RiskAssessmentTool._run, as parsed
    risk_output,        \* what RiskAssessmentTool._run returned or raised
    cache,        \* MemoryCache.cache: key -> entry
    now,          \* time.time()
    returned,     \* the last MemoryCache call: its name, arguments, clock and result
    live,         \* per key, what the last set stored, until a delete or clear
    session_state,  \* st.session_state of the chat page
    handled         \* the last prompt handled: the session before it, what was
                    \* handed to PDF finalization, and whether an exception was caught

engineVars == <<product, quantity, base_price, adjustments, final_price, engine,
                calls, month, result, log, last, prev>>

toolVars == <<line_items_json, tool_output, quote, item_pricing_json, risk_output>>

cacheVars == <<cache, now, returned, live>>

chatVars == <<session_state, handled>>

vars == <<product, quantity, base_price, adjustments, final_price, engine,
          calls, month, result, log, last, prev,
          line_items_json, tool_output, quote, item_pricing_json, risk_output,
          cache, now, returned, live, session_state, handled>>

----------------------------------------------------------------------------
(* Bounds of the model. *)

\* calculate_price calls allowed on one instance
MaxCalls == 2

----------------------------------------------------------------------------
(* Rational arithmetic standing for Python's float arithmetic. *)

Abs(i) == IF i < 0 THEN -i ELSE i

RECURSIVE Gcd(_, _)
Gcd(a, b) == IF b = 0 THEN a ELSE Gcd(b, a % b)

\* the rational n/d (d > 0) in lowest terms
Rat(n, d) == LET g == Gcd(Abs(n), d) IN [n |-> n \div g, d |-> d \div g]

RatInt(i) == [n |-> i, d |-> 1]

RatAdd(x, y) ==
    LET g == Gcd(x.d, y.d)
    IN  Rat(x.n * (y.d \div g) + y.n * (x.d \div g), (x.d \div g) * y.d)

RatSub(x, y) == RatAdd(x, [n |-> -y.n, d |-> y.d])

\* common factors are cancelled before multiplying
RatMul(x, y) ==
    LET g1 == Gcd(Abs(x.n), y.d)
        g2 == Gcd(Abs(y.n), x.d)
    IN  Rat((x.n \div g1) * (y.n \div g2), (x.d \div g2) * (y.d \div g1))

\* x / k for an integer k > 0
RatDivInt(x, k) ==
    LET g == Gcd(Abs(x.n), k)
    IN  Rat(x.n \div g, x.d * (k \div g))

RatLess(x, y) == x.n * y.d < y.n * x.d

\* Python's min(x, y): the first argument unless the second is smaller
RatMin(x, y) == IF RatLess(y, x) THEN y ELSE x

\* n/d (d > 0) rounded to the nearest integer, ties to even
RoundHalfEven(n, d) ==
    LET f == n \div d
        r == n - f * d
    IN  IF 2 * r < d THEN f
        ELSE IF 2 * r > d THEN f + 1
        ELSE IF f % 2 = 0 THEN f ELSE f + 1

\* round(x, 2)
Round2(x) ==
    LET g == Gcd(100, x.d)
    IN  Rat(RoundHalfEven((100 \div g) * x.n, x.d \div g), 100)

----------------------------------------------------------------------------
(* Dict entries and text. *)

Val(v) == [st |-> "set", v |-> v]

NullStr == [st |-> "null", v |-> ""]
AbsentStr == [st |-> "absent", v |-> ""]
NullInt == [st |-> "null", v |-> 0]
AbsentInt == [st |-> "absent", v |-> 0]
NullNum == [st |-> "null", v |-> RatInt(0)]
AbsentNum == [st |-> "absent", v |-> RatInt(0)]

\* d.get(key, default)
Get(d, key, default) == IF d[key].st = "absent" THEN default ELSE d[key]

\* d.get(key): None when the key is absent
GetOrNone(d, key, none) == IF d[key].st = "absent" THEN none ELSE d[key]

\* key not in d or d.get(key) is None
Missing(d, key) == d[key].st # "set"

\* needle in text
Contains(text, needle) == \E i \in DOMAIN text : text[i] = needle

\* sep.join(items), as fragments
RECURSIVE Join(_, _)
Join(sep, items) ==
    IF items = <<>> THEN <<>>
    ELSE IF Len(items) = 1 THEN <<items[1]>>
    ELSE <<items[1], sep>> \o Join(sep, Tail(items))

----------------------------------------------------------------------------
(* Program constants. *)

\* quantity from which the bulk-order discount applies
BulkThreshold == 25

SEASONAL_SUMMER_CATEGORIES == {"Toys & Games", "Sports & Outdoors", "Fashion & Apparel"}

SummerMonths == {5, 6, 7, 8}

RequiredKeys ==
    <<"Product_Name", "Quantity_in_Stock", "Stock_Status", "Min_Selling_Price_Rs">>

----------------------------------------------------------------------------
(* Inputs: the product records, quantities and months the model draws. *)

Stocks == {20, 21, 30, 50, 90}

ReorderLevels == {Val(0), Val(7), Val(10), NullInt, AbsentInt}

\* 100, 10.08 and 33.328: on these, with the other inputs below, no value that is
\* rounded lies exactly halfway between two numbers of 2 decimal places
Prices == {Rat(100, 1), Rat(1008, 100), Rat(33328, 1000)}

Categories == {"Toys & Games", "Electronics"}

FactorTriples ==
    { <<Val(""), Val(""), Val("")>>,
      <<Val("Purchasing Power"), Val(""), Val("")>>,
      <<Val("Weather & Seasons"), Val(""), Val("")>>,
      <<Val("Weather & Seasons"), Val("Age"), Val("")>>,
      <<Val("Age"), Val("Gender"), AbsentStr>>,
      <<Val("Weather & Seasons"), Val(""), Val(" Purchasing Power ")>>,
      <<Val("Gender"), Val("Purchasing Power"), Val("Weather & Seasons")>>,
      <<AbsentStr, NullStr, Val("Brand")>> }

Quantities == {5, 24, 25, 30}

Months == {4, 5}

Record(name, stock, status, price, reorder, category, factors) ==
    [ Product_Name         |-> name,
      Quantity_in_Stock    |-> stock,
      Stock_Status         |-> status,
      Min_Selling_Price_Rs |-> price,
      Reorder_Level        |-> reorder,
      Category             |-> category,
      Factor_1             |-> factors[1],
      Factor_2             |-> factors[2],
      Factor_3             |-> factors[3],
      SmartBuy             |-> Val(Rat(95, 1)),
      ClicKart             |-> NullNum,
      ShopiSky             |-> AbsentNum,
      Neesho               |-> Val(Rat(21999, 100)) ]

\* records with every required field present and not None, in stock
InStockProducts ==
    { Record(Val("Widget"), Val(s), Val("In Stock"), Val(pr), r, Val(c), f) :
        s \in Stocks, pr \in Prices, r \in ReorderLevels, c \in Categories,
        f \in FactorTriples }

\* records with every required field present and not None, out of stock
OutOfStockProducts ==
    { Record(Val("Widget"), Val(s), Val("Out of Stock"), Val(Rat(100, 1)), r,
             Val("Electronics"), <<Val(""), Val(""), Val("")>>) :
        s \in Stocks, r \in ReorderLevels }

CompleteProducts == InStockProducts \cup OutOfStockProducts

\* records in which at least one required field is absent or None
IncompleteProducts ==
    { Record(n, s, st, pr, Val(10), Val("Electronics"), <<Val(""), Val(""), Val("")>>) :
        n \in {Val("Widget"), NullStr, AbsentStr},
        s \in {Val(50), NullInt, AbsentInt},
        st \in {Val("In Stock"), NullStr, AbsentStr},
        pr \in {Val(Rat(100, 1)), NullNum, AbsentNum} }
    \ CompleteProducts

Products == CompleteProducts \cup IncompleteProducts

----------------------------------------------------------------------------
(* PricingRulesEngine.__init__ *)

\* float(x): TypeError for None
Float(entry) ==
    IF entry.st = "null" THEN [ok |-> FALSE, v |-> RatInt(0)]
    ELSE [ok |-> TRUE, v |-> entry.v]

\* a slip in line 26: the adjustment list shared between instances
EngineInitSharedList(p, q) ==
    LET price == Float(Get(p, "Min_Selling_Price_Rs", Val(RatInt(0))))
    IN  IF price.ok
        THEN [engine |-> "ready", base_price |-> price.v, adjustments |-> adjustments,
              final_price |-> price.v]
        ELSE [engine |-> "TypeError", base_price |-> RatInt(0),
              adjustments |-> adjustments, final_price |-> RatInt(0)]

\* the fields __init__ sets, or the exception it raises
EngineInit(p, q) ==
    LET price == Float(Get(p, "Min_Selling_Price_Rs", Val(RatInt(0))))
    IN  IF price.ok
        THEN [engine |-> "ready", base_price |-> price.v, adjustments |-> <<>>,
              final_price |-> price.v]
        ELSE [engine |-> "TypeError", base_price |-> RatInt(0), adjustments |-> <<>>,
              final_price |-> RatInt(0)]

----------------------------------------------------------------------------
(* The rule methods *)

\* truth value of a dict entry holding an int or None
Truthy(entry) == entry.st = "set" /\ entry.v # 0

\* a slip in line 81: the 20% cap left out
InventoryDiscountUncapped(stock, reorder_level) ==
    RatMul(RatMul(Rat(stock, 2 * reorder_level), Rat(5, 100)), RatInt(100))

\* a slip in line 81: the cap set at 25%
InventoryDiscountCapQuarter(stock, reorder_level) ==
    RatMul(RatMin(RatMul(Rat(stock, 2 * reorder_level), Rat(5, 100)), Rat(25, 100)),
           RatInt(100))

\* min(stock / (2 * reorder_level) * 0.05, 0.20) * 100
InventoryDiscountPercentage(stock, reorder_level) ==
    RatMul(RatMin(RatMul(Rat(stock, 2 * reorder_level), Rat(5, 100)), Rat(20, 100)),
           RatInt(100))

\* a slip in line 78: the discount given at exactly twice the reorder level
ApplyInventoryRulesAtThreshold(adjs, p) ==
    LET stock == Get(p, "Quantity_in_Stock", Val(0))
        reorder_level == Get(p, "Reorder_Level", Val(1))
    IN  IF Truthy(reorder_level) /\ stock.v >= 2 * reorder_level.v
        THEN Append(adjs,
                 [type   |-> "discount",
                  value  |-> RatMul(RatMin(RatMul(Rat(stock.v, 2 * reorder_level.v),
                                                  Rat(5, 100)), Rat(20, 100)),
                                    RatInt(100)),
                  reason |-> <<"High Inventory Discount", ": Stock level (",
                               ToString(stock.v),
                               ") is high compared to reorder point.">>])
        ELSE adjs

\* a rule the engine does not have: the reason says when the cap of 20% applied
ApplyInventoryRulesCapNoted(adjs, p) ==
    LET stock == Get(p, "Quantity_in_Stock", Val(0))
        reorder_level == Get(p, "Reorder_Level", Val(1))
    IN  IF Truthy(reorder_level) /\ stock.v > 2 * reorder_level.v
        THEN Append(adjs,
                 [type   |-> "discount",
                  value  |-> InventoryDiscountPercentage(stock.v, reorder_level.v),
                  reason |-> IF stock.v >= 8 * reorder_level.v
                             THEN <<"High Inventory Discount", ": ", "Capped",
                                    " at 20%.">>
                             ELSE <<"High Inventory Discount", ": Stock level (",
                                    ToString(stock.v),
                                    ") is high compared to reorder point.">>])
        ELSE adjs

\* _apply_inventory_rules
ApplyInventoryRules(adjs, p) ==
    LET stock == Get(p, "Quantity_in_Stock", Val(0))
        reorder_level == Get(p, "Reorder_Level", Val(1))
    IN  IF Truthy(reorder_level) /\ stock.v > 2 * reorder_level.v
        THEN Append(adjs,
                 [type   |-> "discount",
                  value  |-> InventoryDiscountPercentage(stock.v, reorder_level.v),
                  reason |-> <<"High Inventory Discount", ": Stock level (",
                               ToString(stock.v),
                               ") is high compared to reorder point.">>])
        ELSE adjs

\* a slip in line 90: the discount given only above 25 units
ApplyOrderValueRulesAbove(adjs, q) ==
    IF q > 25
    THEN Append(adjs,
             [type   |-> "discount",
              value  |-> Rat(75, 10),
              reason |-> <<"Bulk Order Discount", ": For ordering ", ToString(q),
                           " units (25+).">>])
    ELSE adjs

\* a slip in lines 92-93: the sign kept in the value, as a markup of -7.5
ApplyOrderValueRulesSigned(adjs, q) ==
    IF q >= BulkThreshold
    THEN Append(adjs,
             [type   |-> "markup",
              value  |-> Rat(-75, 10),
              reason |-> <<"Bulk Order Discount", ": For ordering ", ToString(q),
                           " units (25+).">>])
    ELSE adjs

\* _apply_order_value_rules
ApplyOrderValueRules(adjs, q) ==
    IF q >= BulkThreshold
    THEN Append(adjs,
             [type   |-> "discount",
              value  |-> Rat(75, 10),
              reason |-> <<"Bulk Order Discount", ": For ordering ", ToString(q),
                           " units (25+).">>])
    ELSE adjs

\* str(x)
Str(entry) == IF entry.st = "null" THEN "None" ELSE entry.v

\* s.strip(), on the strings the model draws
Strip(s) ==
    CASE s = " Purchasing Power " -> "Purchasing Power"
      [] OTHER -> s

\* the factors list of _apply_factor_based_rules
Factors(p) ==
    << Strip(Str(Get(p, "Factor_1", Val("")))),
       Strip(Str(Get(p, "Factor_2", Val("")))),
       Strip(Str(Get(p, "Factor_3", Val("")))) >>

\* a slip in line 46: August left out of the summer season
SeasonalRuleThroughJuly(adjs, p, factors, m) ==
    LET product_category == Get(p, "Category", Val(""))
        is_summer_season == m \in {5, 6, 7}
    IN  IF /\ Contains(factors, "Weather & Seasons")
           /\ is_summer_season
           /\ product_category.st = "set"
           /\ product_category.v \in SEASONAL_SUMMER_CATEGORIES
        THEN Append(adjs,
                 [type   |-> "markup",
                  value  |-> RatInt(10),
                  reason |-> <<"In-Season Demand Markup", ": '", product_category.v,
                               "' is a popular summer category.">>])
        ELSE adjs

\* the seasonal pricing rule of _apply_factor_based_rules
SeasonalRule(adjs, p, factors, m) ==
    LET product_category == Get(p, "Category", Val(""))
        is_summer_season == m \in SummerMonths
    IN  IF /\ Contains(factors, "Weather & Seasons")
           /\ is_summer_season
           /\ product_category.st = "set"
           /\ product_category.v \in SEASONAL_SUMMER_CATEGORIES
        THEN Append(adjs,
                 [type   |-> "markup",
                  value  |-> RatInt(10),
                  reason |-> <<"In-Season Demand Markup", ": '", product_category.v,
                               "' is a popular summer category.">>])
        ELSE adjs

\* the markup of the demographic rule
DemographicMarkup ==
    [type   |-> "markup",
     value  |-> RatInt(3),
     reason |-> <<"Targeted Product Premium",
                  ": Price adjusted for specific demographic appeal.">>]

\* a slip in line 56: one markup for 'Age' and another for 'Gender'
DemographicRulePerFactor(adjs, factors) ==
    (adjs \o (IF Contains(factors, "Age") THEN <<DemographicMarkup>> ELSE <<>>))
          \o (IF Contains(factors, "Gender") THEN <<DemographicMarkup>> ELSE <<>>)

\* the demographic pricing rule of _apply_factor_based_rules
DemographicRule(adjs, factors) ==
    IF Contains(factors, "Age") \/ Contains(factors, "Gender")
    THEN Append(adjs,
             [type   |-> "markup",
              value  |-> RatInt(3),
              reason |-> <<"Targeted Product Premium",
                           ": Price adjusted for specific demographic appeal.">>])
    ELSE adjs

OverrideReason ==
    <<"Price Strategy Override",
      ": Item's price is driven by perceived value, not inventory levels.">>

\* a slip in lines 69-70: the reason rewritten but the value left in place
ValueOverrideReasonOnly(adjs, factors) ==
    IF Contains(factors, "Purchasing Power")
    THEN [i \in DOMAIN adjs |->
            IF Contains(adjs[i].reason, "High Inventory Discount")
            THEN [adjs[i] EXCEPT !.reason = OverrideReason]
            ELSE adjs[i]]
    ELSE adjs

\* a slip in lines 66-70: the discount taken out of the list instead of zeroed
ValueOverrideRemoves(adjs, factors) ==
    IF Contains(factors, "Purchasing Power")
    THEN SelectSeq(adjs, LAMBDA a : ~Contains(a.reason, "High Inventory Discount"))
    ELSE adjs

\* the value-based pricing override of _apply_factor_based_rules
ValueOverride(adjs, factors) ==
    IF Contains(factors, "Purchasing Power")
    THEN [i \in DOMAIN adjs |->
            IF Contains(adjs[i].reason, "High Inventory Discount")
            THEN [adjs[i] EXCEPT !.value = RatInt(0), !.reason = OverrideReason]
            ELSE adjs[i]]
    ELSE adjs

\* _apply_factor_based_rules
ApplyFactorBasedRules(adjs, p, m) ==
    ValueOverride(
        DemographicRule(SeasonalRule(adjs, p, Factors(p), m), Factors(p)),
        Factors(p))

----------------------------------------------------------------------------
(* PricingRulesEngine.calculate_price *)

\* [key for key in required_keys if key not in product or product.get(key) is None]
MissingKeys(p) == SelectSeq(RequiredKeys, LAMBDA key : Missing(p, key))

\* a slip in lines 138-141: discounts added like markups
RECURSIVE TotalAdjustmentAllAdded(_)
TotalAdjustmentAllAdded(adjs) ==
    IF adjs = <<>> THEN RatInt(0)
    ELSE RatAdd(TotalAdjustmentAllAdded(SubSeq(adjs, 1, Len(adjs) - 1)),
                adjs[Len(adjs)].value)

\* the loop summing the adjustments: discounts subtract, markups add
RECURSIVE TotalAdjustmentPercentage(_)
TotalAdjustmentPercentage(adjs) ==
    IF adjs = <<>> THEN RatInt(0)
    ELSE LET adj == adjs[Len(adjs)]
             total == TotalAdjustmentPercentage(SubSeq(adjs, 1, Len(adjs) - 1))
         IN  IF adj.type = "discount" THEN RatSub(total, adj.value)
             ELSE IF adj.type = "markup" THEN RatAdd(total, adj.value)
             ELSE total

\* a slip in line 155: the reasons of neutralised adjustments kept
ReasoningBreakdownUnfiltered(adjs) == [i \in DOMAIN adjs |-> adjs[i].reason]

\* [adj['reason'] for adj in self.adjustments if adj.get('value') != 0]
ReasoningBreakdown(adjs) ==
    LET kept == SelectSeq(adjs, LAMBDA adj : adj.value # RatInt(0))
    IN  [i \in DOMAIN kept |-> kept[i].reason]

\* the result returned for a record with missing required fields
IncompleteResult(p, missing_keys) ==
    [ product_name       |-> Get(p, "Product_Name", Val("Unknown")),
      approved_for_quote |-> FALSE,
      status             |-> <<"Product data incomplete. Missing required fields: ">>
                             \o Join(", ", missing_keys) ]

\* the result returned when the stock check fails
RejectedResult(p, q, stock_status, stock_quantity) ==
    [ product_name       |-> GetOrNone(p, "Product_Name", NullStr),
      quantity_requested |-> q,
      approved_for_quote |-> FALSE,
      status             |-> IF stock_status = "Out of Stock"
                             THEN <<"Product is out of stock.">>
                             ELSE <<"Insufficient stock. Requested: ", ToString(q),
                                    ", Available: ", ToString(stock_quantity), ".">> ]

\* a slip in line 121: a request for the whole stock rejected
StockUnavailableAtEquality(q, stock_status, stock_quantity) ==
    stock_status = "Out of Stock" \/ q >= stock_quantity

\* the stock check: the calculation is rejected
StockUnavailable(q, stock_status, stock_quantity) ==
    stock_status = "Out of Stock" \/ q > stock_quantity

\* base_price * (1 + (total_adjustment_percentage / 100))
FinalSingleUnitPrice(bp, total_adjustment_percentage) ==
    RatMul(bp, RatAdd(RatInt(1), RatDivInt(total_adjustment_percentage, 100)))

\* a slip in line 144: the total taken from the unit price already rounded to 2 places
TotalPriceFromRounded(final_single_unit_price, q) ==
    RatMul(Round2(final_single_unit_price), RatInt(q))

\* final_single_unit_price * quantity
TotalPrice(final_single_unit_price, q) == RatMul(final_single_unit_price, RatInt(q))

\* the result returned for a priced item
ApprovedResult(p, q, bp, adjs) ==
    LET total_adjustment_percentage == TotalAdjustmentPercentage(adjs)
        final_single_unit_price == FinalSingleUnitPrice(bp, total_adjustment_percentage)
        total_price == TotalPrice(final_single_unit_price, q)
    IN  [ product_name                    |-> GetOrNone(p, "Product_Name", NullStr),
          quantity_requested              |-> q,
          approved_for_quote              |-> TRUE,
          base_single_unit_price          |-> Round2(bp),
          final_single_unit_price         |-> Round2(final_single_unit_price),
          total_price                     |-> Round2(total_price),
          net_price_adjustment_percentage |-> Round2(total_adjustment_percentage),
          reasoning_breakdown             |-> ReasoningBreakdown(adjs),
          competitors                     |->
              [ SmartBuy |-> GetOrNone(p, "SmartBuy", NullNum),
                ClicKart |-> GetOrNone(p, "ClicKart", NullNum),
                ShopiSky |-> GetOrNone(p, "ShopiSky", NullNum),
                Neesho   |-> GetOrNone(p, "Neesho", NullNum) ],
          status                          |-> <<"Available">> ]

\* calculate_price on an instance with fields (p, q, bp, adjs) in month m:
\* the value returned, self.adjustments afterwards, and self.adjustments as it
\* stood before the rules, after each of the three rule methods, and at line 65
\* (after the demographic rule, before the value-based override)
CalculatePrice(p, q, bp, adjs, m) ==
    LET missing_keys == MissingKeys(p)
    IN  IF missing_keys # <<>>
        THEN [result |-> IncompleteResult(p, missing_keys), adjustments |-> adjs,
              log |-> <<>>]
        ELSE
        LET stock_status == p.Stock_Status.v
            stock_quantity == p.Quantity_in_Stock.v
        IN  IF StockUnavailable(q, stock_status, stock_quantity)
            THEN [result |-> RejectedResult(p, q, stock_status, stock_quantity),
                  adjustments |-> adjs, log |-> <<>>]
            ELSE
            LET a1 == ApplyInventoryRules(adjs, p)
                a2 == ApplyOrderValueRules(a1, q)
                a3 == ApplyFactorBasedRules(a2, p, m)
                at65 == DemographicRule(SeasonalRule(a2, p, Factors(p), m), Factors(p))
            IN  [result |-> ApprovedResult(p, q, bp, a3), adjustments |-> a3,
                 log |-> <<adjs, a1, a2, a3, at65>>]

----------------------------------------------------------------------------
(* JSON values and Python's formatting of numbers *)

\* the int i, as json.loads gives it for a number written without a fraction
JsonInt(i) == [n |-> i, d |-> 1, int |-> TRUE]

\* abs(x): an int stays an int
PyAbs(x) == [x EXCEPT !.n = Abs(x.n)]

\* str(k), for 0 <= k < 100, in two digits
TwoDigits(k) == IF k < 10 THEN "0" \o ToString(k) ELSE ToString(k)

\* str(x) for a float x >= 0 of at most 2 decimal places: the shortest text with
\* a decimal point
FloatStr(x) ==
    LET h == x.n * (100 \div x.d)
        whole == h \div 100
        frac == h % 100
    IN  ToString(whole) \o "." \o
        (IF frac % 10 = 0 THEN ToString(frac \div 10) ELSE TwoDigits(frac))

\* str(x) for a number x >= 0: "30" for the int 30, "30.0" for the float 30.0
NumStr(x) == IF "int" \in DOMAIN x THEN ToString(x.n) ELSE FloatStr(x)

\* d.get(key, default) on a dict whose keys are the fields of the record d
DictGet(d, key, default) == IF key \in DOMAIN d THEN d[key] ELSE default

\* the JSON string s
JsonStr(s) == [str |-> s]

\* the JSON value null: None
JsonNull == [null |-> TRUE]

\* not x, for the values a line item holds: None and {} are false
Falsy(x) == x = JsonNull \/ DOMAIN x = {}

\* x is a dict (a JSON object) and not a number, a string or None
IsDict(x) == DOMAIN x \cap {"n", "str", "null"} = {}

\* int(s) for a string, on the strings the model draws
IntOfStr(s) ==
    CASE s = "5" -> [ok |-> TRUE, v |-> 5, error |-> ""]
      [] OTHER -> [ok |-> FALSE, v |-> 0, error |-> "ValueError"]

\* int(x): an int is kept, a float is truncated towards zero, a string is parsed
IntOf(x) ==
    IF "n" \in DOMAIN x
    THEN [ok |-> TRUE, error |-> "",
          v |-> IF x.n >= 0 THEN x.n \div x.d ELSE -((-x.n) \div x.d)]
    ELSE IF "str" \in DOMAIN x THEN IntOfStr(x.str)
    ELSE [ok |-> FALSE, v |-> 0, error |-> "TypeError"]

----------------------------------------------------------------------------
(* PricingCalculatorTool._run *)

\* lines 30-35 for one line item: the engine built and run, or the error
\* object of the except clause; the clause itself raises when product_data
\* has no get
PriceItem(product_data, quantity_value, m) ==
    LET q == IntOf(quantity_value)
        e == EngineInit(product_data, q.v)
        error == IF ~q.ok THEN q.error
                 ELSE IF ~IsDict(product_data) THEN "AttributeError"
                 ELSE IF e.engine = "TypeError" THEN "TypeError"
                 ELSE ""
    IN  IF error = ""
        THEN [raised |-> FALSE,
              value |-> CalculatePrice(product_data, q.v, e.base_price,
                                       e.adjustments, m).result]
        ELSE IF ~IsDict(product_data)
        THEN [raised |-> TRUE, value |-> [error |-> <<"AttributeError">>]]
        ELSE [raised |-> FALSE,
              value |-> [error |-> <<"Failed to process item ",
                                     Str(Get(product_data, "Product_Name",
                                             Val("Unknown"))),
                                     ". Details: ", error>>]]

\* lines 22-35: the body of the loop for one item
RunItem(item, m) ==
    IF ~IsDict(item)
    THEN [raised |-> TRUE, value |-> [error |-> <<"AttributeError">>]]
    ELSE
    LET product_data == DictGet(item, "product_json", JsonNull)
        quantity_value == DictGet(item, "quantity", JsonNull)
    IN  IF Falsy(product_data) \/ quantity_value = JsonNull
        THEN [raised |-> FALSE,
              value |-> [error |->
                  <<"Skipping item due to missing 'product_json' or 'quantity'.">>]]
        ELSE PriceItem(product_data, quantity_value, m)

\* a slip in the loop: an item whose product was already priced is skipped
RECURSIVE RunItemsOncePerProduct(_, _, _)
RunItemsOncePerProduct(line_items, m, all_results) ==
    IF line_items = <<>> THEN [raised |-> FALSE, value |-> all_results]
    ELSE LET r == RunItem(Head(line_items), m)
         IN  IF r.raised THEN [raised |-> TRUE, value |-> r.value.error[1]]
             ELSE IF \E i \in DOMAIN all_results :
                        /\ "product_name" \in DOMAIN all_results[i]
                        /\ "product_name" \in DOMAIN r.value
                        /\ all_results[i].product_name = r.value.product_name
             THEN RunItemsOncePerProduct(Tail(line_items), m, all_results)
             ELSE RunItemsOncePerProduct(Tail(line_items), m,
                                         Append(all_results, r.value))

\* lines 20-35: the loop over the line items, all_results being the results so
\* far; an exception that escapes the loop body ends the call
RECURSIVE RunItems(_, _, _)
RunItems(line_items, m, all_results) ==
    IF line_items = <<>> THEN [raised |-> FALSE, value |-> all_results]
    ELSE LET r == RunItem(Head(line_items), m)
         IN  IF r.raised THEN [raised |-> TRUE, value |-> r.value.error[1]]
             ELSE RunItems(Tail(line_items), m, Append(all_results, r.value))

\* a slip in lines 16-17: the isinstance test left out, so that the loop runs
\* over the keys of an object or fails on a value that cannot be iterated
PricingToolRunUnchecked(payload, m) ==
    CASE payload.kind = "text" ->
            [kind |-> "text",
             value |-> <<"Error: Invalid JSON data provided. Details: ", payload.error>>]
      [] payload.kind = "array" ->
            LET r == RunItems(payload.value, m, <<>>)
            IN  IF r.raised THEN [kind |-> "raise", value |-> r.value]
                ELSE [kind |-> "json", value |-> r.value]
      [] payload.kind = "object" ->
            [kind |-> "raise", value |-> "AttributeError"]
      [] OTHER ->
            [kind |-> "raise", value |-> "TypeError"]

\* PricingCalculatorTool._run on a payload: text that json.loads rejects, a JSON
\* array, or another JSON value
PricingToolRun(payload, m) ==
    CASE payload.kind = "text" ->
            [kind |-> "text",
             value |-> <<"Error: Invalid JSON data provided. Details: ", payload.error>>]
      [] payload.kind = "array" ->
            LET r == RunItems(payload.value, m, <<>>)
            IN  IF r.raised THEN [kind |-> "raise", value |-> r.value]
                ELSE [kind |-> "json", value |-> r.value]
      [] OTHER ->
            [kind |-> "json",
             value |-> [error |-> <<"Input must be a JSON array of line items.">>]]

----------------------------------------------------------------------------
(* RiskAssessmentTool._run *)

\* max_allowed_discount = 25.0
max_allowed_discount == 25

\* a slip in line 35: a discount of exactly 25% flagged
DiscountFlagAtCeiling(strategy_data) ==
    LET adjustment == DictGet(strategy_data, "net_price_adjustment_percentage", JsonInt(0))
    IN  IF adjustment # NullNum /\ ~RatLess(RatInt(-max_allowed_discount), adjustment)
        THEN << <<"Risk: Net discount for '",
                  Str(DictGet(strategy_data, "product_name", NullStr)), "' is ",
                  NumStr(PyAbs(adjustment)), "%, which exceeds the maximum of ",
                  FloatStr(RatInt(max_allowed_discount)), "%.">> >>
        ELSE <<>>

\* a slip in line 29: the ceiling taken as 15%
DiscountFlagBeyondFifteen(strategy_data) ==
    LET adjustment == DictGet(strategy_data, "net_price_adjustment_percentage", JsonInt(0))
    IN  IF adjustment # NullNum /\ RatLess(adjustment, RatInt(-15))
        THEN << <<"Risk: Net discount for '",
                  Str(DictGet(strategy_data, "product_name", NullStr)), "' is ",
                  NumStr(PyAbs(adjustment)), "%, which exceeds the maximum of ",
                  FloatStr(RatInt(15)), "%.">> >>
        ELSE <<>>

\* lines 32-36: the flag for a net discount beyond the ceiling, if any
DiscountFlag(strategy_data) ==
    LET adjustment == DictGet(strategy_data, "net_price_adjustment_percentage", JsonInt(0))
    IN  IF adjustment # NullNum /\ RatLess(adjustment, RatInt(-max_allowed_discount))
        THEN << <<"Risk: Net discount for '",
                  Str(DictGet(strategy_data, "product_name", NullStr)), "' is ",
                  NumStr(PyAbs(adjustment)), "%, which exceeds the maximum of ",
                  FloatStr(RatInt(max_allowed_discount)), "%.">> >>
        ELSE <<>>

\* the heads-up appended for one reason containing "Capped"
CappedFlag(strategy_data) ==
    <<"Heads-up: A discount for '",
      Str(DictGet(strategy_data, "product_name", NullStr)),
      "' was automatically capped.">>

\* a slip in lines 39-41: one heads-up however many reasons contain "Capped"
CappedFlagsOnce(strategy_data) ==
    LET reasons == DictGet(strategy_data, "reasoning_breakdown", <<>>)
    IN  IF \E i \in DOMAIN reasons : Contains(reasons[i], "Capped")
        THEN <<CappedFlag(strategy_data)>> ELSE <<>>

\* lines 38-41: one heads-up per reason containing "Capped", in order
CappedFlags(strategy_data) ==
    LET reasons == DictGet(strategy_data, "reasoning_breakdown", <<>>)
        capped == SelectSeq(reasons, LAMBDA reason : Contains(reason, "Capped"))
    IN  [i \in DOMAIN capped |-> CappedFlag(strategy_data)]

\* lines 20-26: the result for an item that is not approved for a quote
NotQuotedResult(strategy_data) ==
    LET reason == DictGet(strategy_data, "status", <<"Item not available for quoting.">>)
    IN  [ risk_level |-> "Low",
          summary    |-> <<"Item '",
                           Str(DictGet(strategy_data, "product_name", Val("Unknown"))),
                           "' poses no pricing risk as it is not being quoted. Reason: ">>
                         \o reason ]

\* a slip in line 20: the approval test left out
AssessUnconditionally(strategy_data) ==
    LET high_risk_flags == DiscountFlag(strategy_data) \o CappedFlags(strategy_data)
    IN  IF high_risk_flags = <<>>
        THEN [ risk_level |-> "Low",
               summary    |-> <<"Item '",
                                Str(DictGet(strategy_data, "product_name", NullStr)),
                                "' passed all checks.">> ]
        ELSE [ risk_level |-> "High",
               summary    |-> <<"High risk detected.">>,
               reasons    |-> high_risk_flags ]

\* lines 20-46: the assessment of a parsed item
Assess(strategy_data) ==
    IF ~DictGet(strategy_data, "approved_for_quote", FALSE)
    THEN NotQuotedResult(strategy_data)
    ELSE
    LET high_risk_flags == DiscountFlag(strategy_data) \o CappedFlags(strategy_data)
    IN  IF high_risk_flags = <<>>
        THEN [ risk_level |-> "Low",
               summary    |-> <<"Item '",
                                Str(DictGet(strategy_data, "product_name", NullStr)),
                                "' passed all checks.">> ]
        ELSE [ risk_level |-> "High",
               summary    |-> <<"High risk detected.">>,
               reasons    |-> high_risk_flags ]

\* RiskAssessmentTool._run on a payload: text that json.loads rejects, a JSON
\* value that is not an object (it has no get), or a JSON object
RiskToolRun(payload) ==
    CASE payload.kind = "text" ->
            [kind |-> "text",
             value |-> <<"Error: Invalid JSON from input. Details: ", payload.error, ".">>]
      [] payload.kind = "object" ->
            [kind |-> "json", value |-> Assess(payload.value)]
      [] OTHER ->
            [kind |-> "raise", value |-> "AttributeError"]

----------------------------------------------------------------------------
(* The state machine *)

\* no tool has been called
NoPayload == [kind |-> "none"]

\* nothing has been returned
NoOutput == [kind |-> "none"]

\* {}
EmptyDict == [k \in {} |-> 0]

\* the tools are not in use
ToolsIdle ==
    /\ line_items_json = NoPayload
    /\ tool_output = NoOutput
    /\ quote = NoOutput
    /\ item_pricing_json = NoPayload
    /\ risk_output = NoOutput

\* the cache is not in use
CacheIdle ==
    /\ cache = EmptyDict
    /\ now = 0
    /\ returned = NoOutput
    /\ live = EmptyDict

\* the chat page is not in use
ChatIdle ==
    /\ session_state = EmptyDict
    /\ handled = NoOutput

\* a request (product, quantity) arrives; no engine is built yet
Init ==
    /\ product \in Products
    /\ quantity \in Quantities
    /\ month \in Months
    /\ engine = "none"
    /\ base_price = RatInt(0)
    /\ adjustments = <<>>
    /\ final_price = RatInt(0)
    /\ calls = 0
    /\ result = <<>>
    /\ log = <<>>
    /\ last = <<>>
    /\ prev = <<>>
    /\ ToolsIdle
    /\ CacheIdle
    /\ ChatIdle

\* engine = PricingRulesEngine(product, quantity): a new instance replaces the old
Construct ==
    LET e == EngineInit(product, quantity)
    IN  /\ engine' = e.engine
        /\ base_price' = e.base_price
        /\ adjustments' = e.adjustments
        /\ final_price' = e.final_price
        /\ calls' = 0
        /\ result' = <<>>
        /\ log' = <<>>
        /\ last' = <<>>
        /\ prev' = IF last # <<>> THEN last ELSE prev
        /\ UNCHANGED <<product, quantity, month, toolVars, cacheVars, chatVars>>

\* engine.calculate_price()
Calculate ==
    /\ engine = "ready"
    /\ calls < MaxCalls
    /\ LET r == CalculatePrice(product, quantity, base_price, adjustments, month)
       IN  /\ result' = r.result
           /\ adjustments' = r.adjustments
           /\ log' = r.log
           /\ last' = IF calls = 0 THEN <<[month |-> month, result |-> r.result]>>
                      ELSE last
    /\ calls' = calls + 1
    /\ UNCHANGED <<product, quantity, base_price, final_price, engine, month, prev,
                   toolVars, cacheVars, chatVars>>

\* the wall clock moves to another month
Tick ==
    /\ month' \in Months \ {month}
    /\ UNCHANGED <<product, quantity, base_price, adjustments, final_price, engine,
                   calls, result, log, last, prev, toolVars, cacheVars, chatVars>>

Next == Construct \/ Calculate \/ Tick

Spec == Init /\ [][Next]_vars

----------------------------------------------------------------------------
(* The engine over the whole year: every month, every seasonal category *)

AllMonths == 1 .. 12

SeasonCategories ==
    { Val("Toys & Games"), Val("Sports & Outdoors"), Val("Fashion & Apparel"),
      Val("Electronics"), Val("toys & games"), NullStr, AbsentStr }

\* in-stock records of every category, with every choice of factors
SeasonProducts ==
    { Record(Val("Widget"), Val(50), Val("In Stock"), Val(Rat(100, 1)), Val(10), c, f) :
        c \in SeasonCategories, f \in FactorTriples }

\* a request arrives in some month of the year
SeasonInit ==
    /\ product \in SeasonProducts
    /\ quantity \in {5, 25}
    /\ month \in AllMonths
    /\ engine = "none"
    /\ base_price = RatInt(0)
    /\ adjustments = <<>>
    /\ final_price = RatInt(0)
    /\ calls = 0
    /\ result = <<>>
    /\ log = <<>>
    /\ last = <<>>
    /\ prev = <<>>
    /\ ToolsIdle
    /\ CacheIdle
    /\ ChatIdle

SeasonNext == Construct \/ Calculate

SeasonSpec == SeasonInit /\ [][SeasonNext]_vars

----------------------------------------------------------------------------
(* The quote: the priced items and their grand total *)

\* a slip in the aggregation: the unit prices added, not the totals
RECURSIVE GrandTotalOfUnitPrices(_)
GrandTotalOfUnitPrices(items) ==
    IF items = <<>> THEN RatInt(0)
    ELSE LET item == items[Len(items)]
             total == GrandTotalOfUnitPrices(SubSeq(items, 1, Len(items) - 1))
         IN  IF DictGet(item, "approved_for_quote", FALSE)
             THEN RatAdd(total, item.final_single_unit_price)
             ELSE total

\* total_price summed over the items with approved == true, first to last
RECURSIVE GrandTotal(_)
GrandTotal(items) ==
    IF items = <<>> THEN RatInt(0)
    ELSE LET item == items[Len(items)]
             total == GrandTotal(SubSeq(items, 1, Len(items) - 1))
         IN  IF DictGet(item, "approved_for_quote", FALSE)
             THEN RatAdd(total, item.total_price)
             ELSE total

\* aggregate(items): the items as given, with their grand total
AggregateQuote(items) == [items |-> items, grand_total |-> GrandTotal(items)]

----------------------------------------------------------------------------
(* The tools: one call of the pricing tool or of the risk tool *)

\* line items in one batch
MaxBatch == 3

NoFactors == <<Val(""), Val(""), Val("")>>

\* product records the line items carry: priced; out of stock; with a None
\* price; priced with a seasonal and a demographic markup
ToolWidget ==
    Record(Val("Widget"), Val(50), Val("In Stock"), Val(Rat(100, 1)), Val(10),
           Val("Electronics"), NoFactors)

ToolGadget ==
    Record(Val("Gadget"), Val(20), Val("Out of Stock"), Val(Rat(100, 1)), Val(10),
           Val("Electronics"), NoFactors)

ToolGizmo ==
    Record(Val("Gizmo"), Val(50), Val("In Stock"), NullNum, Val(10),
           Val("Electronics"), NoFactors)

ToolKite ==
    Record(Val("Kite"), Val(90), Val("In Stock"), Val(Rat(1008, 100)), Val(10),
           Val("Toys & Games"), <<Val("Weather & Seasons"), Val("Age"), Val("")>>)

\* {"product_json": p, "quantity": q}
LineItem(p, q) == [product_json |-> p, quantity |-> q]

\* the entries a batch is made of
LineItems ==
    { LineItem(ToolWidget, JsonInt(5)),
      LineItem(ToolWidget, JsonInt(30)),
      LineItem(ToolWidget, JsonInt(60)),
      LineItem(ToolWidget, JsonInt(0)),
      LineItem(ToolWidget, JsonInt(-5)),
      LineItem(ToolKite, JsonInt(30)),
      LineItem(ToolGadget, JsonInt(5)),
      LineItem(ToolGizmo, JsonInt(5)),
      [quantity |-> JsonInt(5)],
      [product_json |-> ToolWidget],
      LineItem(ToolWidget, JsonNull),
      LineItem(JsonNull, JsonInt(5)),
      LineItem(EmptyDict, JsonInt(5)),
      LineItem(ToolWidget, JsonStr("abc")),
      LineItem(ToolWidget, JsonStr("5")),
      LineItem(ToolWidget, Rat(5, 2)),
      LineItem(JsonStr("Widget"), JsonInt(5)),
      JsonInt(7) }

Batches == UNION { [1 .. n -> LineItems] : n \in 0 .. MaxBatch }

\* what the pricing tool is called with: text that is not JSON, a JSON object,
\* a JSON number, a JSON array of line items
PricingPayloads ==
    { [kind |-> "text", error |-> "Expecting value: line 1 column 1 (char 0)"],
      [kind |-> "object"],
      [kind |-> "scalar"] }
    \cup { [kind |-> "array", value |-> b] : b \in Batches }

\* the fields of the items given to the risk tool, each present or not
ApprovedFields ==
    { EmptyDict, [approved_for_quote |-> TRUE], [approved_for_quote |-> FALSE] }

NameFields == { EmptyDict, [product_name |-> Val("Widget")] }

StatusFields ==
    { EmptyDict,
      [status |-> <<"Available">>],
      [status |-> <<"Insufficient stock. Requested: ", "60", ", Available: ", "50",
                    ".">>] }

NetFields ==
    { EmptyDict }
    \cup { [net_price_adjustment_percentage |-> x] :
             x \in { NullNum, JsonInt(-30), JsonInt(-25), RatInt(-30), RatInt(-25),
                     Rat(-2501, 100), Rat(-2499, 100), Rat(-275, 10), RatInt(0),
                     RatInt(13) } }

PlainReason == <<"Bulk Order Discount", ": For ordering ", "30", " units (25+).">>

CappedReason == <<"Loyalty Discount", ": ", "Capped", " at 15%.">>

ReasoningFields ==
    { EmptyDict }
    \cup { [reasoning_breakdown |-> r] :
             r \in { <<>>, <<PlainReason>>, <<CappedReason>>,
                     <<CappedReason, PlainReason, CappedReason>> } }

\* what the risk tool is called with: text that is not JSON, a JSON array, a
\* JSON object
RiskPayloads ==
    { [kind |-> "text", error |-> "Expecting value: line 1 column 1 (char 0)"],
      [kind |-> "array"] }
    \cup { [kind |-> "object", value |-> (((a @@ pn) @@ st) @@ net) @@ rs] :
             a \in ApprovedFields, pn \in NameFields, st \in StatusFields,
             net \in NetFields, rs \in ReasoningFields }

\* no engine is held between the calls of a tool
EngineIdle ==
    /\ product = EmptyDict
    /\ quantity = 0
    /\ engine = "none"
    /\ base_price = RatInt(0)
    /\ adjustments = <<>>
    /\ final_price = RatInt(0)
    /\ calls = 0
    /\ result = <<>>
    /\ log = <<>>
    /\ last = <<>>
    /\ prev = <<>>

\* one tool is about to be called with a payload
ToolInit ==
    /\ month \in Months
    /\ \/ /\ line_items_json \in PricingPayloads
          /\ item_pricing_json = NoPayload
       \/ /\ line_items_json = NoPayload
          /\ item_pricing_json \in RiskPayloads
    /\ tool_output = NoOutput
    /\ quote = NoOutput
    /\ risk_output = NoOutput
    /\ EngineIdle
    /\ CacheIdle
    /\ ChatIdle

\* tool_output = PricingCalculatorTool()._run(line_items_json)
PricingTool ==
    /\ line_items_json # NoPayload
    /\ tool_output = NoOutput
    /\ tool_output' = PricingToolRun(line_items_json, month)
    /\ UNCHANGED <<engineVars, cacheVars, line_items_json, quote, item_pricing_json,
                   risk_output, chatVars>>

\* quote = aggregate(the priced items)
Aggregate ==
    /\ line_items_json.kind = "array"
    /\ tool_output.kind = "json"
    /\ quote = NoOutput
    /\ quote' = AggregateQuote(tool_output.value)
    /\ UNCHANGED <<engineVars, cacheVars, line_items_json, tool_output,
                   item_pricing_json, risk_output, chatVars>>

\* risk_output = RiskAssessmentTool()._run(item_pricing_json)
RiskTool ==
    /\ item_pricing_json # NoPayload
    /\ risk_output = NoOutput
    /\ risk_output' = RiskToolRun(item_pricing_json)
    /\ UNCHANGED <<engineVars, cacheVars, line_items_json, tool_output, quote,
                   item_pricing_json, chatVars>>

ToolNext == PricingTool \/ Aggregate \/ RiskTool

ToolSpec == ToolInit /\ [][ToolNext]_vars

----------------------------------------------------------------------------
(* The engine followed by the risk tool *)

\* the result of calculate_price is handed, as JSON, to RiskAssessmentTool._run
AssessResult ==
    /\ calls > 0
    /\ risk_output = NoOutput
    /\ item_pricing_json' = [kind |-> "object", value |-> result]
    /\ risk_output' = RiskToolRun([kind |-> "object", value |-> result])
    /\ UNCHANGED <<engineVars, cacheVars, line_items_json, tool_output, quote, chatVars>>

\* a request is priced, on a new or a used instance, and the result assessed
PipelineNext == (risk_output = NoOutput /\ (Construct \/ Calculate)) \/ AssessResult

PipelineSpec == Init /\ [][PipelineNext]_vars

----------------------------------------------------------------------------
(* The chat page: render_quotation_interface handling one prompt at a time *)

\* prompts handled in a session
MaxPrompts == 3

\* what the user types
Prompts == {"approve", " Approve ", "10 widgets", "add 5 kites"}

\* prompt.strip().lower(), on the prompts the model draws
StripLower(prompt) ==
    CASE prompt = " Approve " -> "approve"
      [] OTHER -> prompt

\* how a crew run ends: one of two texts in report_agent_5.md, or an exception
CrewOutcomes == {"A", "B", "fails"}

\* how pdf_tool.run ends: a PDF written, a message without a PDF, or an exception
PdfOutcomes == {"created", "not created", "fails"}

\* run_crew_and_get_quote(request): the text read from the crew's report, or
\* AgentExecutionError
run_crew_and_get_quote(request, outcome) ==
    IF outcome = "fails"
    THEN [raised |-> TRUE, value |-> <<>>]
    ELSE [raised |-> FALSE, value |-> <<"Quote ", outcome, " for: ">> \o request]

\* finalize_approved_quote(quote_text): the message returned and the pdf_path
\* left in the session, or PDFGenerationError
finalize_approved_quote(quote_text, pdf_path, outcome) ==
    CASE outcome = "fails" ->
            [raised |-> TRUE, value |-> <<>>, pdf_path |-> pdf_path]
      [] outcome = "created" ->
            [raised |-> FALSE,
             value |-> <<"PDF Generation Specialist", "Successfully created PDF quote at: ",
                         "quote.pdf">>,
             pdf_path |-> "quote.pdf"]
      [] OTHER ->
            [raised |-> FALSE,
             value |-> <<"PDF Generation Specialist", "Error creating PDF">>,
             pdf_path |-> pdf_path]

\* the session after initialize_session_state and the first run of main
SessionInit ==
    [ messages                |-> << [role |-> "assistant", content |-> <<"Welcome">>] >>,
      request_items           |-> <<>>,
      is_waiting_for_approval |-> FALSE,
      last_quote              |-> <<>>,
      pdf_path                |-> "",
      quotation_history       |-> <<>> ]

\* the page is open and no prompt has been typed
ChatInit ==
    /\ session_state = SessionInit
    /\ handled = NoOutput
    /\ month = 1
    /\ EngineIdle
    /\ ToolsIdle
    /\ CacheIdle

\* line 225: the prompt joins the messages
WithPrompt(prompt) ==
    [session_state EXCEPT !.messages = Append(@, [role |-> "user", content |-> <<prompt>>])]

\* prompts typed so far
PromptCount ==
    Len(SelectSeq(session_state.messages, LAMBDA message : message.role = "user"))

\* lines 231-251: 'approve' typed while a quote awaits approval
Approve ==
    \E prompt \in Prompts, outcome \in PdfOutcomes :
        /\ PromptCount < MaxPrompts
        /\ session_state.is_waiting_for_approval
        /\ StripLower(prompt) = "approve"
        /\ LET s1 == [WithPrompt(prompt) EXCEPT !.is_waiting_for_approval = FALSE]
               r == finalize_approved_quote(s1.last_quote, s1.pdf_path, outcome)
           IN  /\ session_state' =
                     IF r.raised THEN s1
                     ELSE [s1 EXCEPT
                             !.pdf_path = r.pdf_path,
                             !.messages = Append(@, [role |-> "assistant",
                                                     content |-> r.value,
                                                     pdf_path |-> r.pdf_path]),
                             !.quotation_history =
                                 Append(@, [quote |-> s1.last_quote,
                                            pdf_path |-> r.pdf_path]),
                             !.request_items = <<>>,
                             !.last_quote = <<>>]
               /\ handled' = [prompt |-> prompt, before |-> session_state,
                              branch |-> "approval", quote_text |-> <<s1.last_quote>>,
                              failed |-> r.raised]
        /\ UNCHANGED <<engineVars, toolVars, cacheVars>>

\* lines 253-265: anything else typed while a quote awaits approval
Modify ==
    \E prompt \in Prompts, outcome \in CrewOutcomes :
        /\ PromptCount < MaxPrompts
        /\ session_state.is_waiting_for_approval
        /\ StripLower(prompt) # "approve"
        /\ LET s1 == [WithPrompt(prompt) EXCEPT
                        !.is_waiting_for_approval = FALSE,
                        !.request_items = Append(@, prompt)]
               consolidated_request == Join("\n", s1.request_items)
               r == run_crew_and_get_quote(consolidated_request, outcome)
           IN  /\ session_state' =
                     IF r.raised THEN s1
                     ELSE [s1 EXCEPT
                             !.messages =
                                 Append(@, [role |-> "assistant",
                                            content |-> (<<"Quotation Bot">> \o r.value)
                                                \o <<"Here is the revised quote">>]),
                             !.is_waiting_for_approval = TRUE]
               /\ handled' = [prompt |-> prompt, before |-> session_state,
                              branch |-> "modification", quote_text |-> <<>>,
                              failed |-> r.raised]
        /\ UNCHANGED <<engineVars, toolVars, cacheVars>>

\* lines 267-278: a prompt typed while no quote awaits approval
NewRequest ==
    \E prompt \in Prompts, outcome \in CrewOutcomes :
        /\ PromptCount < MaxPrompts
        /\ ~session_state.is_waiting_for_approval
        /\ LET s1 == [WithPrompt(prompt) EXCEPT !.request_items = <<prompt>>]
               consolidated_request == Join("\n", s1.request_items)
               r == run_crew_and_get_quote(consolidated_request, outcome)
           IN  /\ session_state' =
                     IF r.raised THEN s1
                     ELSE [s1 EXCEPT
                             !.messages =
                                 Append(@, [role |-> "assistant",
                                            content |-> (<<"Quotation Bot">> \o r.value)
                                                \o <<"Please review the quote above">>]),
                             !.is_waiting_for_approval = TRUE]
               /\ handled' = [prompt |-> prompt, before |-> session_state,
                              branch |-> "new request", quote_text |-> <<>>,
                              failed |-> r.raised]
        /\ UNCHANGED <<engineVars, toolVars, cacheVars>>

ChatNext == Approve \/ Modify \/ NewRequest

ChatSpec == ChatInit /\ [][ChatNext]_vars

----------------------------------------------------------------------------
(* MemoryCache *)

\* MemoryCache(default_ttl = 3600): seconds
default_ttl == 3600

\* times the clock is read at a later value
MaxTicks == 2

Keys == {"a", "b"}

Values == {"v1", "v2"}

\* the ttl argument of set: None (the default), 0, or a number of seconds
Ttls == {NullInt, Val(0), Val(1), Val(2), Val(-1)}

\* the dict d with d[key] = entry
DictPut(d, key, entry) ==
    [k \in DOMAIN d \cup {key} |-> IF k = key THEN entry ELSE d[k]]

\* the dict d without the keys in keys
DictWithout(d, keys) == [k \in DOMAIN d \ keys |-> d[k]]

\* set(key, value, ttl) at time t: the cache afterwards
cache_set(c, key, value, ttl, t) ==
    LET seconds == IF Truthy(ttl) THEN ttl.v ELSE default_ttl
    IN  DictPut(c, key, [value |-> value, expires_at |-> t + seconds, created_at |-> t])

\* a slip in line 38: an entry dropped from the moment of its expiry on
cache_get_at_expiry(c, key, t) ==
    IF key \notin DOMAIN c
    THEN [cache |-> c, value |-> NullStr]
    ELSE IF t >= c[key].expires_at
    THEN [cache |-> DictWithout(c, {key}), value |-> NullStr]
    ELSE [cache |-> c, value |-> Val(c[key].value)]

\* get(key) at time t: the cache afterwards and the value returned (None: NullStr)
cache_get(c, key, t) ==
    IF key \notin DOMAIN c
    THEN [cache |-> c, value |-> NullStr]
    ELSE IF t > c[key].expires_at
    THEN [cache |-> DictWithout(c, {key}), value |-> NullStr]
    ELSE [cache |-> c, value |-> Val(c[key].value)]

\* delete(key): the cache afterwards and the flag returned
cache_delete(c, key) ==
    IF key \in DOMAIN c
    THEN [cache |-> DictWithout(c, {key}), flag |-> TRUE]
    ELSE [cache |-> c, flag |-> FALSE]

\* cleanup_expired() at time t: the cache afterwards and the count returned
cleanup_expired(c, t) ==
    LET expired_keys == { key \in DOMAIN c : t > c[key].expires_at }
    IN  [cache |-> DictWithout(c, expired_keys), count |-> Cardinality(expired_keys)]

\* the record of a call: its name and arguments, the clock and the cache when
\* it was made, and what it returned
Call(op, key, before, t, value, flag, count) ==
    [op |-> op, key |-> key, before |-> before, at |-> t, value |-> value,
     flag |-> flag, count |-> count]

\* a new MemoryCache; the clock stands at 0
CacheInit ==
    /\ cache = EmptyDict
    /\ now = 0
    /\ returned = NoOutput
    /\ live = EmptyDict
    /\ month = 1
    /\ EngineIdle
    /\ ToolsIdle
    /\ ChatIdle

\* cache.set(key, value, ttl)
CacheSet ==
    \E key \in Keys, value \in Values, ttl \in Ttls :
        /\ cache' = cache_set(cache, key, value, ttl, now)
        /\ returned' = Call("set", key, cache, now, NullStr, FALSE, 0)
        /\ live' = DictPut(live, key, [value |-> value, ttl |-> ttl, set_at |-> now])
        /\ UNCHANGED <<now, engineVars, toolVars, chatVars>>

\* cache.get(key)
CacheGet ==
    \E key \in Keys :
        LET r == cache_get(cache, key, now)
        IN  /\ cache' = r.cache
            /\ returned' = Call("get", key, cache, now, r.value, FALSE, 0)
            /\ UNCHANGED <<now, live, engineVars, toolVars, chatVars>>

\* cache.delete(key)
CacheDelete ==
    \E key \in Keys :
        LET r == cache_delete(cache, key)
        IN  /\ cache' = r.cache
            /\ returned' = Call("delete", key, cache, now, NullStr, r.flag, 0)
            /\ live' = DictWithout(live, {key})
            /\ UNCHANGED <<now, engineVars, toolVars, chatVars>>

\* cache.clear()
CacheClear ==
    /\ cache' = EmptyDict
    /\ returned' = Call("clear", "", cache, now, NullStr, FALSE, 0)
    /\ live' = EmptyDict
    /\ UNCHANGED <<now, engineVars, toolVars, chatVars>>

\* cache.cleanup_expired()
CacheCleanup ==
    LET r == cleanup_expired(cache, now)
    IN  /\ cache' = r.cache
        /\ returned' = Call("cleanup_expired", "", cache, now, NullStr, FALSE, r.count)
        /\ UNCHANGED <<now, live, engineVars, toolVars, chatVars>>

\* time passes: a second, or as long as the default ttl
ClockAdvance ==
    /\ (now \div default_ttl) + (now % default_ttl) < MaxTicks
    /\ now' \in {now + 1, now + default_ttl}
    /\ UNCHANGED <<cache, returned, live, engineVars, toolVars, chatVars>>

CacheNext ==
    CacheSet \/ CacheGet \/ CacheDelete \/ CacheClear \/ CacheCleanup \/ ClockAdvance

CacheSpec == CacheInit /\ [][CacheNext]_vars

----------------------------------------------------------------------------
(* The cached decorator over the global cache *)

\* the wrapped functions: their __name__ and the ttl given to @cached
WrappedFunctions == { [name |-> "f", ttl |-> 1], [name |-> "g", ttl |-> 2] }

\* str(args) + str(kwargs) of the calls made: each function is called with (1)
Arguments == {"(1,){}"}

\* what a wrapped function returns when its body runs; None is NullStr
FunctionResults == {Val("v1"), Val("v2"), NullStr}

\* line 100, with key_prefix "": the hash of the text stands for the text
cache_key(func, args) == ":" \o func.name \o ":" \o args

\* wrapper(*args, **kwargs) at time t, the body returning value if it runs: the
\* cache afterwards, the result returned and whether the body ran
cached(func, c, key, t, value) ==
    LET r == cache_get(c, key, t)
        found == IF r.value.st = "set" THEN r.value.v ELSE NullStr
    IN  IF found # NullStr
        THEN [cache |-> r.cache, result |-> found, executed |-> FALSE]
        ELSE [cache |-> cache_set(r.cache, key, value, Val(func.ttl), t),
              result |-> value, executed |-> TRUE]

\* a wrapped function is called; live keeps what its body last returned, and when
CachedCall ==
    \E func \in WrappedFunctions, args \in Arguments, value \in FunctionResults :
        LET key == cache_key(func, args)
            r == cached(func, cache, key, now, value)
        IN  /\ cache' = r.cache
            /\ returned' = [op |-> "cached", func |-> func, key |-> key, at |-> now,
                            result |-> r.result, executed |-> r.executed,
                            prior |-> IF key \in DOMAIN live THEN <<live[key]>>
                                      ELSE <<>>]
            /\ live' = IF r.executed
                       THEN DictPut(live, key, [value |-> value, ttl |-> Val(func.ttl),
                                                set_at |-> now])
                       ELSE live
            /\ UNCHANGED <<now, engineVars, toolVars, chatVars>>

CachedNext == CachedCall \/ ClockAdvance

CachedSpec == CacheInit /\ [][CachedNext]_vars

----------------------------------------------------------------------------
(* Vocabulary of the properties *)

\* a calculate_price call has returned
Returned == calls > 0

\* the last call returned a priced item
Approved == Returned /\ result.approved_for_quote

\* the last call ran the pricing rules
RulesRan == Returned /\ log # <<>>

\* every required field of the record is present and not None
Complete == \A i \in DOMAIN RequiredKeys : product[RequiredKeys[i]].st = "set"

\* the reorder level the inventory rule reads (1 when the record has none)
ReorderLevel ==
    IF product.Reorder_Level.st = "absent" THEN 1 ELSE product.Reorder_Level.v

\* the stock level is high enough for the inventory discount
InventoryTriggered ==
    ReorderLevel > 0 /\ product.Quantity_in_Stock.v > 2 * ReorderLevel

HasFactor(f) == Contains(Factors(product), f)

RatAbs(x) == [n |-> Abs(x.n), d |-> x.d]

RatLeq(x, y) == ~RatLess(y, x)

\* c is a number of 2 decimal places and no such number is nearer to x
IsRounding2(c, x) ==
    /\ 100 % c.d = 0
    /\ RatLeq(RatAbs(RatSub(c, x)), Rat(1, 200))

\* sum of the magnitudes of the adjustments of one kind
RECURSIVE Magnitudes(_, _)
Magnitudes(adjs, kind) ==
    IF adjs = <<>> THEN RatInt(0)
    ELSE RatAdd(IF Head(adjs).type = kind THEN Head(adjs).value ELSE RatInt(0),
                Magnitudes(Tail(adjs), kind))

\* markups minus discounts, at full precision
NetOf(adjs) == RatSub(Magnitudes(adjs, "markup"), Magnitudes(adjs, "discount"))

----------------------------------------------------------------------------
(* C1 *)

\* C1: for a product record with a required field absent or None, building the
\* engine and calling calculate_price raises nothing and returns an unapproved
\* result whose status is "Product data incomplete. Missing required fields: "
\* followed by exactly the missing fields; no adjustment, no price.
C1_IncompleteRecordIsReported ==
    ~Complete =>
        /\ engine # "TypeError"
        /\ Returned =>
              /\ result.approved_for_quote = FALSE
              /\ result.status =
                    <<"Product data incomplete. Missing required fields: ">>
                    \o Join(", ", SelectSeq(RequiredKeys,
                                            LAMBDA k : product[k].st # "set"))
              /\ DOMAIN result = {"product_name", "approved_for_quote", "status"}
              /\ adjustments = <<>>

----------------------------------------------------------------------------
(* C2 *)

\* C2: for a complete record, "Out of Stock" gives an unapproved result with
\* status "Product is out of stock." (also when the quantity exceeds the
\* stock); otherwise quantity > stock gives an unapproved result with status
\* "Insufficient stock. Requested: <q>, Available: <s>."; otherwise (quantity <=
\* stock, equality included) the result is approved with status "Available".
\* A rejected calculation records no adjustment.
C2_StockCheck ==
    (Returned /\ Complete) =>
        LET s == product.Quantity_in_Stock.v
            out == product.Stock_Status.v = "Out of Stock"
        IN  /\ out =>
                  /\ ~result.approved_for_quote
                  /\ result.status = <<"Product is out of stock.">>
                  /\ adjustments = <<>>
            /\ (~out /\ quantity > s) =>
                  /\ ~result.approved_for_quote
                  /\ result.status = <<"Insufficient stock. Requested: ",
                                       ToString(quantity), ", Available: ",
                                       ToString(s), ".">>
                  /\ adjustments = <<>>
            /\ (~out /\ quantity <= s) =>
                  /\ result.approved_for_quote
                  /\ result.status = <<"Available">>

\* a request for exactly the stock at hand has been approved
C2_Witness ==
    /\ Returned /\ Complete
    /\ product.Stock_Status.v = "In Stock"
    /\ quantity = product.Quantity_in_Stock.v
    /\ result.approved_for_quote

----------------------------------------------------------------------------
(* C3 *)

\* C3 as stated: for every approved result, total_price equals
\* round(final_unit_price * quantity, 2) computed from the returned (rounded)
\* final_unit_price, and final_unit_price equals
\* round(base_price * (1 + net_adjustment_percentage/100), 2) computed from the
\* returned net_adjustment_percentage.
C3_PricesFromReturnedValues ==
    Approved =>
        /\ result.total_price =
              Round2(RatMul(result.final_single_unit_price, RatInt(quantity)))
        /\ result.final_single_unit_price =
              Round2(RatMul(base_price,
                            RatAdd(RatInt(1),
                                   RatDivInt(result.net_price_adjustment_percentage,
                                             100))))

\* C3 amended: for every approved result, final_unit_price and total_price are
\* the roundings to 2 places of u and of u * quantity, where
\* u = base_price * (1 + n/100) at full precision and n is the unrounded sum of
\* the adjustments (markups minus discounts).
C3_PricesFromFullPrecision ==
    Approved =>
        LET n == NetOf(adjustments)
            u == RatMul(base_price, RatAdd(RatInt(1), RatDivInt(n, 100)))
        IN  /\ IsRounding2(result.final_single_unit_price, u)
            /\ IsRounding2(result.total_price, RatMul(u, RatInt(quantity)))

\* an approved result whose total differs from quantity times the returned unit price
C3_Witness ==
    /\ Approved
    /\ result.total_price #
          RatMul(result.final_single_unit_price, RatInt(quantity))

----------------------------------------------------------------------------
(* C4 *)

\* the record and quantity of the example: min price 100, stock 50, reorder
\* level 10, no factors, quantity 30, first call on the instance
Scenario1 ==
    /\ Approved /\ calls = 1
    /\ product.Min_Selling_Price_Rs = Val(RatInt(100))
    /\ product.Quantity_in_Stock = Val(50)
    /\ product.Reorder_Level = Val(10)
    /\ Factors(product) = <<"", "", "">>
    /\ quantity = 30

\* C4 as stated: for every approved result, net_adjustment_percentage equals
\* the sum of the Markup magnitudes minus the sum of the Discount magnitudes of
\* the adjustment list as it stands after all rules have run.
C4_NetIsTheSum ==
    Approved => result.net_price_adjustment_percentage = NetOf(adjustments)

\* C4 amended: net_adjustment_percentage equals that sum rounded to 2 decimal
\* places; in the example the list holds a 12.5% and a 7.5% discount, the net
\* is -20, the final unit price 80.00 and the total 2400.00.
C4_NetIsTheRoundedSum ==
    /\ Approved =>
          IsRounding2(result.net_price_adjustment_percentage, NetOf(adjustments))
    /\ Scenario1 =>
          /\ Len(adjustments) = 2
          /\ adjustments[1].type = "discount" /\ adjustments[1].value = Rat(125, 10)
          /\ adjustments[2].type = "discount" /\ adjustments[2].value = Rat(75, 10)
          /\ result.net_price_adjustment_percentage = RatInt(-20)
          /\ result.final_single_unit_price = RatInt(80)
          /\ result.total_price = RatInt(2400)

\* the example has been priced
C4_Witness == Scenario1

----------------------------------------------------------------------------
(* C5 *)

\* C5: the inventory-level rule appends a Discount exactly when
\* reorder_level > 0 and stock_quantity > 2 * reorder_level, with magnitude
\* min(stock_quantity / (2 * reorder_level) * 5, 20) percent; it appends nothing
\* when reorder_level is 0 or when stock_quantity <= 2 * reorder_level.
C5_InventoryRule ==
    RulesRan =>
        LET before == log[1]
            after == log[2]
            s == product.Quantity_in_Stock.v
            r == ReorderLevel
        IN  IF r > 0 /\ s > 2 * r
            THEN /\ Len(after) = Len(before) + 1
                 /\ SubSeq(after, 1, Len(before)) = before
                 /\ after[Len(after)].type = "discount"
                 /\ after[Len(after)].value =
                       (IF 5 * s <= 20 * (2 * r) THEN Rat(5 * s, 2 * r) ELSE RatInt(20))
                 /\ Contains(after[Len(after)].reason, "High Inventory Discount")
            ELSE after = before

\* the rule has appended a discount below the cap
C5_Witness ==
    /\ RulesRan
    /\ InventoryTriggered
    /\ Len(log[2]) = Len(log[1]) + 1
    /\ RatLess(log[2][Len(log[2])].value, RatInt(20))

----------------------------------------------------------------------------
(* C6 *)

\* C6: with reorder_level fixed and positive, for stock quantities s1 < s2 both
\* above 2 * reorder_level the inventory discount for s2 is >= the one for s1,
\* and the discount never exceeds 20%.  Here s2 is the stock of the record the
\* rule has just run on and s1 ranges over every smaller stock above the
\* threshold.
C6_InventoryDiscountMonotoneAndCapped ==
    (RulesRan /\ InventoryTriggered) =>
        LET s2 == product.Quantity_in_Stock.v
            r == ReorderLevel
            m2 == log[2][Len(log[2])].value
        IN  /\ RatLeq(m2, RatInt(20))
            /\ \A s1 \in (2 * r + 1) .. (s2 - 1) :
                  /\ RatLeq(InventoryDiscountPercentage(s1, r), m2)
                  /\ RatLeq(InventoryDiscountPercentage(s1, r), RatInt(20))

\* the rule has run on a stock for which the cap applies
C6_Witness ==
    /\ RulesRan
    /\ InventoryTriggered
    /\ 5 * product.Quantity_in_Stock.v > 20 * (2 * ReorderLevel)
    /\ log[2][Len(log[2])].value = RatInt(20)

----------------------------------------------------------------------------
(* C7 *)

\* the adjustments the override has neutralised
Neutralised(adjs) == SelectSeq(adjs, LAMBDA a : a.reason = OverrideReason)

\* the other adjustments
NotNeutralised(adjs) == SelectSeq(adjs, LAMBDA a : a.reason # OverrideReason)

\* C7: whenever the stock level triggers the inventory discount and
\* 'Purchasing Power' is among the three factors, the inventory discount
\* contributes exactly 0 to net_adjustment_percentage (it stays in the list
\* with value 0, the net is the sum of the other adjustments), and neither its
\* original reason nor the override reason appears in the returned reasoning;
\* with quantity below 25 and no markup factor the net is 0 and
\* final_unit_price equals base_price.
C7_OverrideLaw ==
    (Approved /\ InventoryTriggered /\ HasFactor("Purchasing Power")) =>
        /\ Len(Neutralised(adjustments)) = calls
        /\ \A i \in DOMAIN adjustments :
              /\ ~Contains(adjustments[i].reason, "High Inventory Discount")
              /\ adjustments[i].reason = OverrideReason =>
                    adjustments[i].value = RatInt(0)
        /\ result.net_price_adjustment_percentage =
              NetOf(NotNeutralised(adjustments))
        /\ \A i \in DOMAIN result.reasoning_breakdown :
              /\ result.reasoning_breakdown[i] # OverrideReason
              /\ ~Contains(result.reasoning_breakdown[i], "High Inventory Discount")
        /\ ( /\ quantity < 25
             /\ ~HasFactor("Weather & Seasons")
             /\ ~HasFactor("Age")
             /\ ~HasFactor("Gender") ) =>
              /\ result.net_price_adjustment_percentage = RatInt(0)
              /\ result.final_single_unit_price = result.base_single_unit_price
              /\ IsRounding2(result.final_single_unit_price, base_price)

\* scenario 3: an overridden inventory discount, quantity 5, no markup factor
C7_Witness ==
    /\ Approved /\ InventoryTriggered /\ HasFactor("Purchasing Power")
    /\ quantity = 5
    /\ ~HasFactor("Weather & Seasons") /\ ~HasFactor("Age") /\ ~HasFactor("Gender")
    /\ result.net_price_adjustment_percentage = RatInt(0)

----------------------------------------------------------------------------
(* C8 *)

\* the leading fragment of each reason: the name of the rule that gave it
RuleNames(reasons) == [i \in DOMAIN reasons |-> Head(reasons[i])]

\* the rules that leave a non-zero adjustment in a calculation made in month
\* m on a new instance, in the order in which calculate_price applies them
RulesInForce(m) ==
    (IF InventoryTriggered /\ ~HasFactor("Purchasing Power")
     THEN <<"High Inventory Discount">> ELSE <<>>)
    \o (IF quantity >= 25 THEN <<"Bulk Order Discount">> ELSE <<>>)
    \o (IF /\ HasFactor("Weather & Seasons")
           /\ m \in {5, 6, 7, 8}
           /\ product.Category.v \in
                 {"Toys & Games", "Sports & Outdoors", "Fashion & Apparel"}
        THEN <<"In-Season Demand Markup">> ELSE <<>>)
    \o (IF HasFactor("Age") \/ HasFactor("Gender")
        THEN <<"Targeted Product Premium">> ELSE <<>>)

\* C8: for every approved result, reasoning is the list of the reasons of
\* exactly those adjustments whose magnitude is non-zero after all rules have
\* run, in the order of the list; on a new instance that order is inventory
\* discount, bulk discount, seasonal markup, demographic markup.
C8_ReasoningOrder ==
    Approved =>
        LET kept == SelectSeq(adjustments, LAMBDA a : a.value.n # 0)
        IN  /\ Len(result.reasoning_breakdown) = Len(kept)
            /\ \A i \in DOMAIN kept : result.reasoning_breakdown[i] = kept[i].reason
            /\ calls = 1 =>
                  RuleNames(result.reasoning_breakdown) = RulesInForce(last[1].month)

\* a first result in which all four rules left a reason
C8_Witness ==
    /\ Approved /\ calls = 1
    /\ RuleNames(result.reasoning_breakdown) =
          <<"High Inventory Discount", "Bulk Order Discount",
            "In-Season Demand Markup", "Targeted Product Premium">>

----------------------------------------------------------------------------
(* C9 *)

----------------------------------------------------------------------------
(* C10 *)

\* C10: the bulk-order rule appends exactly one flat 7.5% Discount when
\* quantity >= 25 and nothing when quantity < 25; the magnitude is the same
\* for every such quantity.
C10_BulkRule ==
    RulesRan =>
        LET before == log[2]
            after == log[3]
        IN  IF quantity >= 25
            THEN /\ Len(after) = Len(before) + 1
                 /\ SubSeq(after, 1, Len(before)) = before
                 /\ after[Len(after)].type = "discount"
                 /\ after[Len(after)].value = Rat(15, 2)
                 /\ Contains(after[Len(after)].reason, "Bulk Order Discount")
            ELSE after = before

\* the rule has run on a quantity above the threshold and appended 7.5%
C10_Witness ==
    /\ RulesRan
    /\ quantity > 25
    /\ Len(log[3]) = Len(log[2]) + 1
    /\ log[3][Len(log[3])].value = Rat(15, 2)

----------------------------------------------------------------------------
(* C11 *)

\* the adjustments a rule has left in the list, told by the name leading the reason
EntriesOf(adjs, rule) == SelectSeq(adjs, LAMBDA a : Head(a.reason) = rule)

\* the three conditions of the seasonal rule, for the record in hand in month m
SeasonalConditions(m) ==
    /\ \E f \in {"Factor_1", "Factor_2", "Factor_3"} :
          /\ product[f].st = "set"
          /\ product[f].v \in {"Weather & Seasons"}
    /\ m \in {5, 6, 7, 8}
    /\ product.Category.st = "set"
    /\ product.Category.v \in {"Toys & Games", "Sports & Outdoors", "Fashion & Apparel"}

\* C11: the seasonal rule appends a 10% Markup if and only if 'Weather &
\* Seasons' is one of the three factors, the month of the evaluation is May,
\* June, July or August, and the category is Toys & Games, Sports & Outdoors or
\* Fashion & Apparel; if any one of the three fails, no seasonal markup is
\* appended.
C11_SeasonalRule ==
    RulesRan =>
        LET before == EntriesOf(log[3], "In-Season Demand Markup")
            after == EntriesOf(log[4], "In-Season Demand Markup")
        IN  IF SeasonalConditions(month)
            THEN /\ Len(after) = Len(before) + 1
                 /\ SubSeq(after, 1, Len(before)) = before
                 /\ after[Len(after)].type = "markup"
                 /\ after[Len(after)].value = RatInt(10)
                 /\ log[4][Len(log[3]) + 1] = after[Len(after)]
            ELSE after = before

\* the markup has been appended in August
C11_Witness ==
    /\ RulesRan
    /\ month = 8
    /\ SeasonalConditions(month)
    /\ Len(EntriesOf(log[4], "In-Season Demand Markup")) =
          Len(EntriesOf(log[3], "In-Season Demand Markup")) + 1

----------------------------------------------------------------------------
(* C12 *)

\* 'Age' or 'Gender' is one of the three factors of the record in hand
DemographicFactor ==
    \E f \in {"Factor_1", "Factor_2", "Factor_3"} :
        product[f].st = "set" /\ product[f].v \in {"Age", "Gender"}

\* C12: the demographic rule appends exactly one flat 3% Markup when 'Age' or
\* 'Gender' is among the factors (a single one also when both are), and none
\* otherwise.
C12_DemographicRule ==
    RulesRan =>
        LET before == EntriesOf(log[3], "Targeted Product Premium")
            after == EntriesOf(log[4], "Targeted Product Premium")
        IN  IF DemographicFactor
            THEN /\ Len(after) = Len(before) + 1
                 /\ SubSeq(after, 1, Len(before)) = before
                 /\ after[Len(after)].type = "markup"
                 /\ after[Len(after)].value = RatInt(3)
                 /\ log[4][Len(log[4])] = after[Len(after)]
            ELSE after = before

\* the rule has run on a record with both 'Age' and 'Gender' and appended one markup
C12_Witness ==
    /\ RulesRan
    /\ HasFactor("Age") /\ HasFactor("Gender")
    /\ Len(EntriesOf(log[4], "Targeted Product Premium")) =
          Len(EntriesOf(log[3], "Targeted Product Premium")) + 1

----------------------------------------------------------------------------
(* C13 *)

\* the risk tool has returned or raised
RiskRan == risk_output # NoOutput

\* the risk tool was given a JSON object
RiskItemGiven == item_pricing_json.kind = "object"

\* the item given to the risk tool is approved for a quote
RiskItemApproved ==
    /\ RiskItemGiven
    /\ "approved_for_quote" \in DOMAIN item_pricing_json.value
    /\ item_pricing_json.value.approved_for_quote

\* the item carries a net adjustment strictly below -25
NetBelowCeiling ==
    /\ "net_price_adjustment_percentage" \in DOMAIN item_pricing_json.value
    /\ "n" \in DOMAIN item_pricing_json.value.net_price_adjustment_percentage
    /\ LET net == item_pricing_json.value.net_price_adjustment_percentage
       IN  net.n < (-25) * net.d

\* the item's reasoning entries that contain "Capped"
CappedEntries ==
    IF "reasoning_breakdown" \in DOMAIN item_pricing_json.value
    THEN { i \in DOMAIN item_pricing_json.value.reasoning_breakdown :
             \E j \in DOMAIN item_pricing_json.value.reasoning_breakdown[i] :
                 item_pricing_json.value.reasoning_breakdown[i][j] = "Capped" }
    ELSE {}

\* the reasons of the assessment returned (none in a Low assessment)
RiskReasons ==
    IF "reasons" \in DOMAIN risk_output.value THEN risk_output.value.reasons ELSE <<>>

\* the reasons that report a net discount beyond the ceiling
DiscountReasons ==
    SelectSeq(RiskReasons, LAMBDA r : Head(r) = "Risk: Net discount for '")

\* C13: for an approved item, the net discount is flagged if and only if
\* net_adjustment_percentage is strictly less than -25.0: an item with exactly
\* -25.0 and no 'Capped' reason is Low, an item with -25.01 is High, and the
\* High reason cites the magnitude of the discount against the 25% ceiling
\* (-30 cites 30% and 25.0%).
C13_DiscountFlaggedBelowCeiling ==
    (RiskRan /\ RiskItemApproved) =>
        /\ risk_output.kind = "json"
        /\ Len(DiscountReasons) = (IF NetBelowCeiling THEN 1 ELSE 0)
        /\ NetBelowCeiling =>
              /\ risk_output.value.risk_level = "High"
              /\ LET net == item_pricing_json.value.net_price_adjustment_percentage
                     cited == DiscountReasons[1]
                 IN  /\ cited[5] = "%, which exceeds the maximum of "
                     /\ cited[6] = "25.0"
                     /\ net = JsonInt(-30) => cited[4] = "30"
                     /\ net = RatInt(-30) => cited[4] = "30.0"
                     /\ net = Rat(-2501, 100) => cited[4] = "25.01"
                     /\ net = Rat(-275, 10) => cited[4] = "27.5"
        /\ (~NetBelowCeiling /\ CappedEntries = {}) =>
              risk_output.value.risk_level = "Low"

\* an approved item with a net adjustment of -25.01 has been assessed High
C13_Witness ==
    /\ RiskRan /\ RiskItemApproved
    /\ "net_price_adjustment_percentage" \in DOMAIN item_pricing_json.value
    /\ item_pricing_json.value.net_price_adjustment_percentage = Rat(-2501, 100)
    /\ CappedEntries = {}
    /\ risk_output.value.risk_level = "High"

----------------------------------------------------------------------------
(* C14 *)

\* C14: for every item that is not approved for a quote, the assessment is Low
\* with a summary that ends with the item's status text, whatever net
\* adjustment or reasoning the item carries: it holds no reasons.
C14_UnapprovedIsLow ==
    (RiskRan /\ RiskItemGiven /\ ~RiskItemApproved) =>
        /\ risk_output.kind = "json"
        /\ risk_output.value.risk_level = "Low"
        /\ DOMAIN risk_output.value = {"risk_level", "summary"}
        /\ Contains(risk_output.value.summary,
                    "' poses no pricing risk as it is not being quoted. Reason: ")
        /\ "status" \in DOMAIN item_pricing_json.value =>
              LET status == item_pricing_json.value.status
                  summary == risk_output.value.summary
              IN  /\ Len(summary) > Len(status)
                  /\ SubSeq(summary, Len(summary) - Len(status) + 1, Len(summary))
                        = status

\* an unapproved item carrying a net adjustment of -30 and 'Capped' reasons has
\* been assessed, and the summary ends with its status
C14_Witness ==
    /\ RiskRan /\ RiskItemGiven
    /\ "approved_for_quote" \in DOMAIN item_pricing_json.value
    /\ ~item_pricing_json.value.approved_for_quote
    /\ NetBelowCeiling
    /\ CappedEntries # {}
    /\ "status" \in DOMAIN item_pricing_json.value
    /\ Len(item_pricing_json.value.status) > 1
    /\ risk_output.value.risk_level = "Low"

----------------------------------------------------------------------------
(* C15 *)

\* C15: for an approved item, the level is Low exactly when no flag was
\* accumulated (net adjustment not below -25 and no reasoning entry containing
\* 'Capped'); otherwise it is High with summary 'High risk detected.' and
\* reasons holding one entry for the discount breach (if any) followed by one
\* entry per reasoning string containing 'Capped'.
C15_LowExactlyWithoutFlags ==
    (RiskRan /\ RiskItemApproved) =>
        /\ risk_output.kind = "json"
        /\ IF ~NetBelowCeiling /\ CappedEntries = {}
           THEN /\ risk_output.value.risk_level = "Low"
                /\ DOMAIN risk_output.value = {"risk_level", "summary"}
                /\ Contains(risk_output.value.summary, "' passed all checks.")
           ELSE /\ risk_output.value.risk_level = "High"
                /\ risk_output.value.summary = <<"High risk detected.">>
                /\ LET reasons == risk_output.value.reasons
                       breach == IF NetBelowCeiling THEN 1 ELSE 0
                   IN  /\ Len(reasons) = breach + Cardinality(CappedEntries)
                       /\ \A i \in DOMAIN reasons :
                             Head(reasons[i]) =
                                 (IF i <= breach THEN "Risk: Net discount for '"
                                  ELSE "Heads-up: A discount for '")

\* an approved item with a discount breach and two 'Capped' reasons has been
\* assessed: three reasons
C15_Witness ==
    /\ RiskRan /\ RiskItemApproved
    /\ NetBelowCeiling
    /\ Cardinality(CappedEntries) = 2
    /\ Len(RiskReasons) = 3

----------------------------------------------------------------------------
(* C16 *)

\* the pricing tool has returned or raised
PricingRan == tool_output # NoOutput

\* the pricing tool was given a JSON array
BatchGiven == line_items_json.kind = "array"

\* the entry is a pair: a JSON object whose product record, if it has one, is
\* a JSON object or null
IsPair(entry) ==
    /\ DOMAIN entry \cap {"n", "str", "null"} = {}
    /\ "product_json" \in DOMAIN entry =>
          DOMAIN entry.product_json \cap {"n", "str"} = {}

\* the batch given is made of pairs
BatchOfPairs == BatchGiven /\ \A i \in DOMAIN line_items_json.value :
                                 IsPair(line_items_json.value[i])

----------------------------------------------------------------------------
(* C17 *)

\* the pair lacks a product record or a quantity, or its quantity is not a
\* JSON integer
Malformed(entry) ==
    \/ "product_json" \notin DOMAIN entry
    \/ entry.product_json = JsonNull
    \/ DOMAIN entry.product_json = {}
    \/ "quantity" \notin DOMAIN entry
    \/ entry.quantity = JsonNull
    \/ "int" \notin DOMAIN entry.quantity

\* the entry of the output is an error object
IsErrorObject(x) == DOMAIN x = {"error"}

\* C17: a malformed batch entry (missing product record, missing quantity, or
\* a quantity of invalid type) produces a per-entry error object at its
\* position and never aborts the batch: every other entry of the same batch is
\* still priced and returned.
C17_MalformedEntryIsAnError ==
    (PricingRan /\ BatchOfPairs) =>
        LET batch == line_items_json.value
            out == tool_output.value
        IN  /\ tool_output.kind = "json"
            /\ Len(out) = Len(batch)
            /\ \A i \in DOMAIN batch :
                  IF Malformed(batch[i])
                  THEN IsErrorObject(out[i])
                  ELSE out[i] = PricingToolRun(
                                    [kind |-> "array", value |-> <<batch[i]>>],
                                    month).value[1]

----------------------------------------------------------------------------
(* C18 *)

\* the quote has been built
Quoted == quote # NoOutput

\* the item is approved for the quote
ItemApproved(item) ==
    "approved_for_quote" \in DOMAIN item /\ item.approved_for_quote

\* the totals of the approved items among items[from], ..., items[Len(items)]
RECURSIVE ApprovedTotalsFrom(_, _)
ApprovedTotalsFrom(items, from) ==
    IF from > Len(items) THEN RatInt(0)
    ELSE RatAdd(IF ItemApproved(items[from]) THEN items[from].total_price
                ELSE RatInt(0),
                ApprovedTotalsFrom(items, from + 1))

\* the batch of the example: 5 Widgets, 60 Widgets (more than the stock),
\* 30 Widgets
QuoteExample ==
    /\ line_items_json.kind = "array"
    /\ line_items_json.value =
          << LineItem(ToolWidget, JsonInt(5)), LineItem(ToolWidget, JsonInt(60)),
             LineItem(ToolWidget, JsonInt(30)) >>

\* C18: the quote's grand_total equals the sum of total_price over exactly
\* the items with approved == true; the other items stay in the item sequence
\* and contribute 0.  In the example (437.50 approved, one item rejected,
\* 2400.00 approved) the three items are kept and the total is 2837.50.
C18_GrandTotalOverApproved ==
    Quoted =>
        /\ quote.items = tool_output.value
        /\ Len(quote.items) = Len(line_items_json.value)
        /\ quote.grand_total = ApprovedTotalsFrom(quote.items, 1)
        /\ (\A i \in DOMAIN quote.items : ~ItemApproved(quote.items[i])) =>
              quote.grand_total = RatInt(0)
        /\ QuoteExample =>
              /\ ~ItemApproved(quote.items[2])
              /\ quote.grand_total = Rat(28375, 10)

\* the example has been quoted
C18_Witness == Quoted /\ QuoteExample

----------------------------------------------------------------------------
(* C19 *)

\* the result is none of the business results: it has no approved flag and no
\* risk level, and it is no list of priced items
NoBusinessResult(output) ==
    \/ output.kind = "text"
    \/ /\ output.kind = "json"
       /\ DOMAIN output.value = {"error"}

\* C19: structurally invalid input at the tool boundary (a payload that is not
\* parseable JSON, for either tool, or for the pricing tool a JSON value that
\* is not an array) yields an error result that is distinct from every
\* business result: it carries neither an approved flag nor a risk level, and
\* the tool does not raise.
C19_InvalidInputIsAnError ==
    /\ (PricingRan /\ line_items_json.kind = "text") =>
          /\ tool_output.kind = "text"
          /\ Head(tool_output.value) = "Error: Invalid JSON data provided. Details: "
    /\ (PricingRan /\ line_items_json.kind \in {"object", "scalar"}) =>
          /\ tool_output.kind = "json"
          /\ tool_output.value =
                [error |-> <<"Input must be a JSON array of line items.">>]
    /\ (PricingRan /\ line_items_json.kind # "array") => NoBusinessResult(tool_output)
    /\ (RiskRan /\ item_pricing_json.kind = "text") =>
          /\ risk_output.kind = "text"
          /\ Head(risk_output.value) = "Error: Invalid JSON from input. Details: "
          /\ NoBusinessResult(risk_output)

\* the pricing tool has answered a JSON object with its error result
C19_Witness ==
    /\ PricingRan
    /\ line_items_json.kind = "object"
    /\ tool_output.kind = "json"
    /\ DOMAIN tool_output.value = {"error"}

----------------------------------------------------------------------------
(* C20 *)

\* the moment the entry last stored for the key expires: ttl seconds after the
\* set, 3600 seconds when no ttl (or 0) was given
ExpiryOf(key) ==
    live[key].set_at +
        (IF live[key].ttl.st = "set" /\ live[key].ttl.v # 0 THEN live[key].ttl.v
         ELSE 3600)

\* the key was set, not deleted or cleared since, and at time t its entry has
\* not expired
Alive(key, t) == key \in DOMAIN live /\ t <= ExpiryOf(key)

\* C20: after set(k, v, ttl), get(k) returns v for as long as the current time
\* has not passed the entry's expiry; once the time is past the expiry, get(k)
\* returns None and removes the entry.  Over any sequence of set / get /
\* delete / clear / cleanup_expired (the clock never running backwards), get
\* never returns a value for a key that is expired, deleted or cleared, the
\* cache holds no deleted or cleared key, and cleanup_expired removes exactly
\* the expired entries and returns their count.
C20_CacheExpiry ==
    /\ \A k \in DOMAIN cache :
          /\ k \in DOMAIN live
          /\ cache[k].value = live[k].value
          /\ cache[k].expires_at = ExpiryOf(k)
    /\ returned # NoOutput =>
          /\ returned.op = "get" =>
                IF Alive(returned.key, returned.at)
                THEN /\ returned.value = Val(live[returned.key].value)
                     /\ returned.key \in DOMAIN cache
                ELSE /\ returned.value = NullStr
                     /\ returned.key \notin DOMAIN cache
          /\ returned.op = "cleanup_expired" =>
                LET expired == { k \in DOMAIN returned.before :
                                   ~Alive(k, returned.at) }
                IN  /\ returned.count = Cardinality(expired)
                    /\ DOMAIN cache = DOMAIN returned.before \ expired
                    /\ \A k \in DOMAIN cache : cache[k] = returned.before[k]
          /\ returned.op = "delete" =>
                /\ returned.key \notin DOMAIN cache
                /\ returned.flag = (returned.key \in DOMAIN returned.before)
          /\ returned.op = "clear" => DOMAIN cache = {}

\* get was called for an entry set with a ttl of 1 second, still in the cache
\* past its expiry: it returned None and removed the entry
C20_Witness ==
    /\ returned # NoOutput
    /\ returned.op = "get"
    /\ returned.key \in DOMAIN live
    /\ live[returned.key].ttl = Val(1)
    /\ returned.at > ExpiryOf(returned.key)
    /\ returned.key \in DOMAIN returned.before
    /\ returned.value = NullStr
    /\ returned.key \notin DOMAIN cache

----------------------------------------------------------------------------
(* C21 *)

\* the last call was made through @cached while an earlier run of the body for
\* the same function and arguments was no older than the ttl
CalledAgainWithinTtl ==
    /\ returned # NoOutput
    /\ returned.op = "cached"
    /\ returned.prior # <<>>
    /\ returned.at <= returned.prior[1].set_at + returned.func.ttl

\* C21: a call of a function wrapped with @cached(ttl), made within the ttl of
\* an earlier call with the same arguments, returns that call's result without
\* running the body again.
C21_SecondCallWithinTtlIsServed ==
    CalledAgainWithinTtl =>
        /\ ~returned.executed
        /\ returned.result = returned.prior[1].value

----------------------------------------------------------------------------
(* C22 *)

\* C22: when 'Purchasing Power' is among the factors, the value-based override
\* leaves the number and the order of the adjustments as it found them; an
\* adjustment whose reason mentions 'High Inventory Discount' keeps its kind and
\* has its magnitude set to 0 and its reason rewritten, and every other
\* adjustment keeps its kind, magnitude and reason.
C22_OverrideOnlyMutates ==
    (RulesRan /\ HasFactor("Purchasing Power")) =>
        LET before == log[5]
            after == log[4]
        IN  /\ Len(after) = Len(before)
            /\ \A i \in DOMAIN before :
                  IF Contains(before[i].reason, "High Inventory Discount")
                  THEN /\ after[i].type = before[i].type
                       /\ after[i].value = RatInt(0)
                       /\ after[i].reason = OverrideReason
                  ELSE after[i] = before[i]

\* the override found an inventory discount followed by a bulk discount and a
\* markup: it rewrote the first and left the other two
C22_Witness ==
    /\ RulesRan /\ HasFactor("Purchasing Power")
    /\ Len(log[5]) = 3
    /\ Head(log[5][1].reason) = "High Inventory Discount"
    /\ log[5][1].value # RatInt(0)
    /\ log[4][1].reason = OverrideReason
    /\ Head(log[5][2].reason) = "Bulk Order Discount"
    /\ log[5][3].type = "markup"
    /\ log[4][2] = log[5][2] /\ log[4][3] = log[5][3]

----------------------------------------------------------------------------
(* C23 *)

\* the reasons of the assessment that are heads-up about a capped discount
HeadsUpReasons ==
    SelectSeq(RiskReasons, LAMBDA r : Head(r) = "Heads-up: A discount for '")

\* C23: for every approved result of calculate_price, no entry of reasoning
\* contains 'Capped', so the risk assessment of the result holds no 'Heads-up'
\* reason.
C23_CappedNeverFires ==
    /\ Approved =>
          \A i \in DOMAIN result.reasoning_breakdown :
              ~Contains(result.reasoning_breakdown[i], "Capped")
    /\ (RiskRan /\ RiskItemApproved) =>
          /\ CappedEntries = {}
          /\ risk_output.kind = "json"
          /\ HeadsUpReasons = <<>>

\* a result whose inventory discount was cut to the 20% cap has been assessed
C23_Witness ==
    /\ RiskRan /\ RiskItemApproved
    /\ item_pricing_json.value = result
    /\ InventoryTriggered /\ ~HasFactor("Purchasing Power")
    /\ product.Quantity_in_Stock.v > 8 * ReorderLevel
    /\ Len(adjustments) > 0 /\ adjustments[1].value = RatInt(20)
    /\ HeadsUpReasons = <<>>

----------------------------------------------------------------------------
(* C24 *)

\* the product record satisfies the data model: stock and reorder level, where
\* given, are not negative
DataModel ==
    /\ product.Quantity_in_Stock.st = "set" => product.Quantity_in_Stock.v >= 0
    /\ product.Reorder_Level.st = "set" => product.Reorder_Level.v >= 0

\* C24: for a product record with stock_quantity >= 0 and reorder_level >= 0,
\* every adjustment in the trail has a non-negative magnitude at every point of
\* a calculation (before the rules, after each rule, and in the instance
\* afterwards); its kind is markup or discount.
C24_MagnitudesNonNegative ==
    DataModel =>
        /\ \A i \in DOMAIN adjustments :
              /\ adjustments[i].value.n >= 0
              /\ adjustments[i].type \in {"markup", "discount"}
        /\ \A k \in DOMAIN log : \A i \in DOMAIN log[k] :
              /\ log[k][i].value.n >= 0
              /\ log[k][i].type \in {"markup", "discount"}

\* a calculation has left an inventory discount below the cap, a bulk discount
\* and a markup in the trail
C24_Witness ==
    /\ RulesRan /\ DataModel
    /\ Len(log[4]) >= 3
    /\ log[4][1].type = "discount" /\ RatLess(RatInt(0), log[4][1].value)
    /\ RatLess(log[4][1].value, RatInt(20))
    /\ log[4][2].value = Rat(75, 10)
    /\ log[4][3].type = "markup" /\ RatLess(RatInt(0), log[4][3].value)

----------------------------------------------------------------------------
(* C25 *)

\* C25: after any number of calculate_price calls on one instance, the trail
\* holds at most one entry per rule (an overridden inventory discount counts
\* for the inventory rule), and every call made in the month of the first
\* returns the net adjustment and the prices the first call returned.
C25_OneEntryPerRule ==
    /\ \A rule \in {"High Inventory Discount", "Price Strategy Override",
                    "Bulk Order Discount", "In-Season Demand Markup",
                    "Targeted Product Premium"} :
          Len(EntriesOf(adjustments, rule)) <= 1
    /\ Len(EntriesOf(adjustments, "High Inventory Discount"))
          + Len(EntriesOf(adjustments, "Price Strategy Override")) <= 1
    /\ (Approved /\ calls > 1 /\ last[1].month = month) =>
          /\ result.net_price_adjustment_percentage =
                last[1].result.net_price_adjustment_percentage
          /\ result.final_single_unit_price = last[1].result.final_single_unit_price
          /\ result.total_price = last[1].result.total_price

----------------------------------------------------------------------------
(* C26 *)

\* the messages that show a quote
QuoteMessages(messages) ==
    SelectSeq(messages, LAMBDA message :
        message.role = "assistant" /\ Head(message.content) = "Quotation Bot")

\* the text of the quote most recently shown
LastShown(messages) ==
    LET shown == QuoteMessages(messages)
        content == shown[Len(shown)].content
    IN  SubSeq(content, 2, Len(content) - 1)

\* the last prompt was 'approve', processed while a quote awaited approval
ApprovalHandled ==
    /\ handled # NoOutput
    /\ handled.branch = "approval"
    /\ handled.before.is_waiting_for_approval

\* C26: when 'approve' is processed while a quote awaits approval, the text
\* handed to PDF finalization, and the text stored in quotation_history, is the
\* text of the quote most recently shown to the user.
C26_ApprovedQuoteIsTheOneShown ==
    ApprovalHandled =>
        /\ handled.quote_text = <<LastShown(handled.before.messages)>>
        /\ ~handled.failed =>
              LET history == session_state.quotation_history
              IN  history[Len(history)].quote = LastShown(handled.before.messages)

----------------------------------------------------------------------------
(* C27 *)

\* C27: if quote generation fails while a modification is handled, the session
\* is left as it was before the modification: is_waiting_for_approval is still
\* true and request_items does not hold the failed modification.
C27_FailedModificationLeavesSession ==
    ( /\ handled # NoOutput
      /\ handled.branch = "modification"
      /\ handled.failed ) =>
        /\ session_state.is_waiting_for_approval
        /\ session_state.request_items = handled.before.request_items

----------------------------------------------------------------------------
(* C28 *)

\* an approved result of the first calculation of an instance, on a product
\* record that satisfies the data model
FreshApproved == Approved /\ calls = 1 /\ DataModel

\* the net adjustment lies between -27.5 and +13
NetInRange ==
    /\ RatLeq(Rat(-275, 10), result.net_price_adjustment_percentage)
    /\ RatLeq(result.net_price_adjustment_percentage, RatInt(13))

\* C28 as stated: for every approved result of a fresh calculation on a
\* product record satisfying the data model, net_adjustment_percentage lies
\* between -27.5 and +13 inclusive, and final_unit_price is never below 72.5%
\* nor above 113% of base_price.
C28_NetAndPriceWithinBounds ==
    FreshApproved =>
        /\ NetInRange
        /\ RatLeq(RatMul(Rat(725, 1000), base_price), result.final_single_unit_price)
        /\ RatLeq(result.final_single_unit_price, RatMul(Rat(113, 100), base_price))

\* C28, amended: for every approved result of a fresh calculation on a product
\* record satisfying the data model, net_adjustment_percentage lies between
\* -27.5 and +13 inclusive, and final_unit_price, which is rounded to 2 places,
\* is at most 0.005 below 72.5% and at most 0.005 above 113% of base_price.
C28_NetAndRoundedPriceWithinBounds ==
    FreshApproved =>
        /\ NetInRange
        /\ RatLeq(RatSub(RatMul(Rat(725, 1000), base_price), Rat(5, 1000)),
                  result.final_single_unit_price)
        /\ RatLeq(result.final_single_unit_price,
                  RatAdd(RatMul(Rat(113, 100), base_price), Rat(5, 1000)))

\* a fresh calculation gave the largest net discount, 27.5%, and the unit
\* price returned, rounded down, is below 72.5% of base_price
C28_Witness ==
    /\ FreshApproved
    /\ result.net_price_adjustment_percentage = Rat(-275, 10)
    /\ RatLess(result.final_single_unit_price, RatMul(Rat(725, 1000), base_price))

----------------------------------------------------------------------------
(* C29 *)

\* the approved result of the first calculation of an instance (the way
\* PricingCalculatorTool prices an item) has been assessed
FreshResultAssessed ==
    /\ RiskRan /\ RiskItemApproved
    /\ calls = 1
    /\ item_pricing_json.value = result

\* the inventory discount of this calculation, not overridden, is above 17.5%
InventoryDiscountAbove ==
    /\ ~HasFactor("Purchasing Power")
    /\ \E i \in DOMAIN adjustments :
          /\ Head(adjustments[i].reason) = "High Inventory Discount"
          /\ RatLess(Rat(175, 10), adjustments[i].value)

\* C29: an approved item priced by the engine (one calculation on a new
\* instance) and then assessed is High only if the bulk discount applied
\* (quantity >= 25), the inventory discount applied with a magnitude above
\* 17.5% and was not overridden, and no markup applied; every other such item
\* is Low.
C29_HighOnlyForDeepDiscounts ==
    FreshResultAssessed =>
        /\ risk_output.kind = "json"
        /\ risk_output.value.risk_level \in {"High", "Low"}
        /\ risk_output.value.risk_level = "High" =>
              /\ quantity >= 25
              /\ EntriesOf(adjustments, "Bulk Order Discount") # <<>>
              /\ InventoryDiscountAbove
              /\ \A i \in DOMAIN adjustments : adjustments[i].type # "markup"

\* an item with a 20% inventory discount and the bulk discount has been
\* assessed High
C29_Witness ==
    /\ FreshResultAssessed
    /\ quantity >= 25 /\ InventoryDiscountAbove
    /\ result.net_price_adjustment_percentage = Rat(-275, 10)
    /\ risk_output.value.risk_level = "High"

----------------------------------------------------------------------------
(* C30 *)

\* C30: a non-positive quantity is never priced as a business result: for
\* every batch entry whose quantity is zero or negative the pricing tool
\* returns no approved item, so every approved item has a requested quantity
\* above 0 and a total_price of at least 0.
C30_NonPositiveQuantityNotPriced ==
    (PricingRan /\ BatchGiven /\ tool_output.kind = "json") =>
        \A i \in DOMAIN tool_output.value :
            ItemApproved(tool_output.value[i]) =>
                /\ tool_output.value[i].quantity_requested > 0
                /\ tool_output.value[i].total_price.n >= 0

============================================================================
